---- MODULE Spec2Model ----
(***************************************************************************)
(* Static-site generation pipeline of packages/astro/src/core/build/       *)
(* generate.ts: generatePages -> generatePage -> getPathsForRoute ->       *)
(* generatePath.  Pathnames are sequences of characters, so that the       *)
(* trailing-slash and leading-slash conversions are computed, not assumed. *)
(***************************************************************************)
EXTENDS Integers, Sequences, FiniteSets, TLC

\* ------------------------------------------------------------------ bounds
\* longest list a getStaticPaths callback returns
MaxStaticPaths == 2
\* most responses without a body in one build
MaxNoBody == 1
\* clock ticks a hook is followed for
MaxTicks == 3
\* entries of the static image list of a build with optimized images
ImageCount == 2
\* setAdapter calls the astro:config:done hooks make
MaxAdapterCalls == 4
\* style elements created for one result
MaxStyles == 2
\* head renders of one result
MaxRenders == 2
\* largest order and depth of an order record
MaxOrder == 2
MaxDepth == 2
\* longest list of stylesheets reduced
MaxSheets == 3
\* concurrent calls of getConfiguredImageService
MaxServiceCalls == 3
\* routes and static paths handed to the Cloudflare adapter
MaxCfRoutes == 2
MaxCfStatic == 2

\* --------------------------------------------------------------- pathnames
Empty == <<>>
Root == <<"/">>
PX == <<"/", "x">>
PXS == <<"/", "x", "/">>
\* a route without a fixed pathname (route.pathname is undefined)
NoPath == <<"undefined">>

\* JavaScript truthiness of route.pathname: undefined and '' are falsy
Truthy(p) == p # NoPath /\ p # Empty

removeTrailingForwardSlash(p) ==
    IF Len(p) > 0 /\ p[Len(p)] = "/" THEN SubSeq(p, 1, Len(p) - 1) ELSE p

removeLeadingForwardSlash(p) ==
    IF Len(p) > 0 /\ p[1] = "/" THEN SubSeq(p, 2, Len(p)) ELSE p

\* ------------------------------------------------------------------ routes
\* RouteData: component, fixed pathname (or undefined), type, the set of
\* literal pathnames its pattern matches, and the pathnames route.generate
\* yields for the bindings its module enumerates.  A markdown page is the
\* only kind of module that exports frontmatter.
IndexRoute ==
    [component |-> "index.md", pathname |-> Root, type |-> "page",
     pattern |-> {Root}, generates |-> {}, markdown |-> TRUE]
XRoute ==
    [component |-> "x.md", pathname |-> PX, type |-> "page",
     pattern |-> {PX, PXS}, generates |-> {}, markdown |-> TRUE]
ParamRoute ==
    [component |-> "[a].astro", pathname |-> NoPath, type |-> "page",
     pattern |-> {PX, PXS}, generates |-> {PX}, markdown |-> FALSE]
SpreadRoute ==
    [component |-> "[...s].astro", pathname |-> NoPath, type |-> "page",
     pattern |-> {Empty, Root, PX, PXS}, generates |-> {Empty, Root, PX},
     markdown |-> FALSE]
RestRoute ==
    [component |-> "[...rest].astro", pathname |-> NoPath, type |-> "page",
     pattern |-> {Empty, Root, PX, PXS}, generates |-> {Root, PX, PXS},
     markdown |-> FALSE]

\* The manifests of the builds explored: static routes sort before dynamic
\* ones, a named parameter before a rest parameter.
Manifests ==
    { <<IndexRoute, ParamRoute, SpreadRoute>>,
      <<XRoute, ParamRoute, RestRoute>> }

\* the pathnames route.generate can produce for the bindings of a route
RoutePaths(route) == route.generates

\* matchRoute(pathname, manifest): the first route, in manifest order, whose
\* pattern matches the pathname; 0 when no route matches (undefined)
matchRoute(pathname, m) ==
    IF \E i \in 1..Len(m) : pathname \in m[i].pattern
    THEN CHOOSE i \in 1..Len(m) :
            /\ pathname \in m[i].pattern
            /\ \A j \in 1..(i - 1) : pathname \notin m[j].pattern
    ELSE 0

\* ----------------------------------------------------------------- helpers
Range(s) == { s[i] : i \in 1..Len(s) }

Permutations3 ==
    { <<a, b, c>> : a \in 1..3, b \in 1..3, c \in 1..3 } \
    { s \in { <<a, b, c>> : a \in 1..3, b \in 1..3, c \in 1..3 } :
        Cardinality({s[1], s[2], s[3]}) < 3 }

\* all sequences over S of length 0..n
RECURSIVE SeqsUpTo(_, _)
SeqsUpTo(S, n) ==
    IF n = 0 THEN { <<>> }
    ELSE LET shorter == SeqsUpTo(S, n - 1)
         IN shorter \cup { Append(s, x) : s \in { t \in shorter : Len(t) = n - 1 }, x \in S }

\* ------------------------------------------------------------ configuration
TrailingSlashes == {"always", "never", "ignore"}
BuildFormats == {"directory", "file"}
\* the <<trailingSlash, build.format>> settings of the builds explored
BuildConfigs == { <<"ignore", "directory">>, <<"never", "file">> }

\* what a page module can carry in frontmatter.draft
ModuleKinds(markdown) ==
    IF markdown
    THEN { [frontmatter |-> TRUE, draft |-> "true"],
           [frontmatter |-> TRUE, draft |-> "false"],
           [frontmatter |-> TRUE, draft |-> "undefined"] }
    ELSE { [frontmatter |-> FALSE, draft |-> "undefined"] }
NoModule == [frontmatter |-> FALSE, draft |-> "none"]

\* a draft check that ignores the markdown.drafts setting
shouldSkipDraft_IgnoreConfig(pageModule, enabled) ==
    /\ pageModule.frontmatter
    /\ pageModule.draft = "true"

shouldSkipDraft(pageModule, enabled) ==
    /\ ~enabled
    /\ pageModule.frontmatter
    /\ pageModule.draft = "true"

\* a policy table in which 'ignore' never appends
shouldAppendForwardSlash_IgnoreNever(ts, fmt) == ts = "always"

shouldAppendForwardSlash(ts, fmt) ==
    CASE ts = "always" -> TRUE
      [] ts = "never" -> FALSE
      [] ts = "ignore" -> (fmt = "directory")

\* pathname.replace(/\/?$/, '/') : exactly one slash at the end
EnsureTrailingSlash(p) == Append(removeTrailingForwardSlash(p), "/")

\* an addPageName that also strips the trailing slash when none is appended
PageName_Stripped(p, ts, fmt) ==
    IF shouldAppendForwardSlash(ts, fmt)
    THEN removeLeadingForwardSlash(EnsureTrailingSlash(p))
    ELSE removeLeadingForwardSlash(removeTrailingForwardSlash(p))

\* the name addPageName pushes to opts.pageNames
PageName(p, ts, fmt) ==
    IF shouldAppendForwardSlash(ts, fmt)
    THEN removeLeadingForwardSlash(EnsureTrailingSlash(p))
    ELSE removeLeadingForwardSlash(p)

\* npath.dirname of a relative path: everything before the last slash
RECURSIVE DirName(_)
DirName(s) ==
    IF Len(s) = 0 THEN <<>>
    ELSE IF s[Len(s)] = "/" THEN SubSeq(s, 1, Len(s) - 1)
    ELSE DirName(SubSeq(s, 1, Len(s) - 1))

\* getOutFolder: the directory generatePath creates for a pathname
OutFolder(p, type, fmt) ==
    LET inner == removeTrailingForwardSlash(removeLeadingForwardSlash(p))
    IN IF type = "page" /\ fmt = "directory" THEN inner ELSE DirName(inner)

\* getOutFile: the file generatePath writes for a pathname
OutFile(p, type, fmt) ==
    LET inner == removeTrailingForwardSlash(removeLeadingForwardSlash(p))
    IN IF type = "endpoint" THEN removeLeadingForwardSlash(p)
       ELSE IF Len(inner) = 0 THEN <<"index.html">>
       ELSE IF fmt = "directory" THEN inner \o <<"/", "index.html">>
       ELSE inner \o <<".html">>

\* ------------------------------------------------------------------- state
VARIABLES
    manifest,       \* opts.manifest.routes, in priority order
    pages,          \* order in which eachPageDataFromEntryPoint yields the pages
    draftsEnabled,  \* settings.config.markdown.drafts
    trailingSlash,  \* settings.config.trailingSlash
    buildFormat,    \* settings.config.build.format
    pc,             \* position of generatePages
    pageIdx,        \* index into pages of the page being generated
    curMod,         \* the page module imported last
    paths,          \* the list getPathsForRoute returned for the current page
    pathIdx,        \* loop index i of generatePage
    builtPaths,     \* the Set<string> created by generatePages
    routeCache,     \* opts.routeCache
    files,          \* output files on disk: outFile -> body
    folders,        \* directories created by mkdir
    pageNames,      \* opts.pageNames
    error,          \* the error generatePages rejected with, or "none"
    hookRuns,       \* number of runHookBuildGenerated calls
    distURL,        \* per route: pageData.route.distURL
    \* history of the run
    gspCalls,       \* per route: invocations of callGetStaticPaths
    candidates,     \* per route: the mapped enumeration of its last resolution
    returned,       \* per route: the list its last resolution returned
    previous,       \* per route: the list its resolution before the last returned
    builtBefore,    \* per route: builtPaths when its last resolution started
    resolvedRoutes, \* routes getPathsForRoute has returned for
    renderLog,      \* sequence of [route, path] render invocations
    writeLog,       \* sequence of [route, path, file] completed writes
    thrown,         \* the error the last generatePath or callback threw
    skipped,        \* routes skipped as drafts
    raised,         \* the error the last render threw, as it left the renderer
    errorId,        \* the component identifier on the error generatePath threw
    response,       \* what the last render resolved with
    inflight,       \* generatePath calls started and not yet settled
    scriptStages,   \* the stages of settings.scripts
    bundleMap,      \* specifiers with a string entry in entrySpecifierToBundleMap
    output,         \* settings.config.output
    prerender,      \* per route: route.prerender
    assets,         \* settings.config.experimental.assets
    styles,         \* per route: pageData.styles, a list of [order, depth]
    resolution,     \* the last specifier env.resolve was asked for, and its result
    imagesDone,     \* static images generateImage has completed
    call,           \* a call of one of the pure helpers: its arguments and result
    runner,         \* a run-hook function: its integrations, position, clock and log
    adapter,        \* settings.adapter and the setAdapter calls made so far
    result,         \* an SSRResult: its styles, head flag and what was emitted
    routes,         \* the Cloudflare adapter's astro:build:done: its inputs and _routes.json
    service         \* the image service: globalThis.astroAsset and the calls loading it

config == <<manifest, pages, draftsEnabled, trailingSlash, buildFormat,
            scriptStages, bundleMap, output, prerender, assets>>
control == <<pc, pageIdx, curMod, paths, pathIdx>>
store == <<builtPaths, routeCache>>
disk == <<files, folders, distURL>>
resolveHist == <<gspCalls, candidates, returned, previous, builtBefore, resolvedRoutes>>
genHist == <<renderLog, writeLog>>
errHist == <<raised, errorId, response>>
history == <<resolveHist, genHist, thrown, skipped, errHist>>
\* state of the helpers that are modelled on their own
rest == <<result, routes, service>>
aside == <<call, runner, adapter, rest>>
\* state of generatePages
build == <<config, control, store, disk, pageNames, error, hookRuns, history, inflight,
           styles, resolution, imagesDone>>
vars == <<build, aside>>

RouteIds == 1..3
NoEntry == [set |-> FALSE, staticPaths |-> <<>>]

cur == pages[pageIdx]
route == manifest[cur]

\* an error value: whether it is an AstroError, another object or a
\* primitive, and the component identifier it carries ("none" when absent)
NoError == [kind |-> "none", id |-> "none"]
NoResolution == [specifier |-> "none", result |-> "none"]

\* the specifiers generatePath looks up in entrySpecifierToBundleMap
PAGE_SCRIPT_ID == "astro:scripts/page.js"
BEFORE_HYDRATION_SCRIPT_ID == "astro:scripts/before-hydration.js"
CLIENT_ENTRY == "@astrojs/react/client.js"
Specifiers == {PAGE_SCRIPT_ID, BEFORE_HYDRATION_SCRIPT_ID, CLIENT_ENTRY}

\* a build: its injected script stages, its bundle map, its output mode, the
\* prerender flag of each route and whether optimized images are generated
StaticBuild(map) ==
    [scriptStages |-> {"page"}, bundleMap |-> map, output |-> "static",
     prerender |-> [r \in RouteIds |-> TRUE], assets |-> FALSE]

\* the builds explored: a static build whose bundle holds the page script,
\* and one whose bundle lacks it
Builds == { StaticBuild(Specifiers), StaticBuild({CLIENT_ENTRY}) }

\* pageData.styles as the bundling phase leaves them: in any order
PageStyles(r) ==
    CASE r = 1 -> << [order |-> 1, depth |-> 0], [order |-> 0, depth |-> 1] >>
      [] r = 2 -> << [order |-> 0, depth |-> 0], [order |-> -1, depth |-> 0] >>
      [] OTHER -> << >>

\* the helpers modelled on their own are not running
NoCall == [fn |-> "none"]
NoRunner == [hook |-> "none"]
NoAdapter == [name |-> "none"]
NoResult == [styles |-> <<>>]
NoRoutes == [step |-> "none"]
NoService == [calls |-> <<>>]
RestIdle ==
    /\ result = NoResult
    /\ routes = NoRoutes
    /\ service = NoService

AsideIdle ==
    /\ call = NoCall
    /\ runner = NoRunner
    /\ adapter = NoAdapter
    /\ RestIdle

\* everything generatePages creates or is handed empty
StartState ==
    /\ pc = "pages"
    /\ pageIdx = 1
    /\ curMod = NoModule
    /\ paths = <<>>
    /\ pathIdx = 1
    /\ builtPaths = {}
    /\ routeCache = [r \in RouteIds |-> NoEntry]
    /\ files = <<>>
    /\ folders = {}
    /\ pageNames = <<>>
    /\ error = "none"
    /\ hookRuns = 0
    /\ distURL = [r \in RouteIds |-> NoPath]
    /\ gspCalls = [r \in RouteIds |-> 0]
    /\ candidates = [r \in RouteIds |-> <<>>]
    /\ returned = [r \in RouteIds |-> <<>>]
    /\ previous = [r \in RouteIds |-> <<>>]
    /\ builtBefore = [r \in RouteIds |-> {}]
    /\ resolvedRoutes = {}
    /\ renderLog = <<>>
    /\ writeLog = <<>>
    /\ thrown = "none"
    /\ skipped = {}
    /\ raised = NoError
    /\ errorId = "none"
    /\ response = "none"
    /\ inflight = 0
    /\ styles = [r \in RouteIds |-> PageStyles(r)]
    /\ resolution = NoResolution
    /\ imagesDone = 0

\* the state generatePages starts from, for a manifest drawn from ms and a
\* build drawn from bs
Start(ms, bs) ==
    /\ manifest \in ms
    /\ pages \in Permutations3
    /\ draftsEnabled \in BOOLEAN
    /\ \E c \in BuildConfigs : trailingSlash = c[1] /\ buildFormat = c[2]
    /\ \E b \in bs :
        /\ scriptStages = b.scriptStages
        /\ bundleMap = b.bundleMap
        /\ output = b.output
        /\ prerender = b.prerender
        /\ assets = b.assets
    /\ StartState
    /\ AsideIdle

Init == Start(Manifests, Builds)

\* ---------------------------------------------------------- getPathsForRoute
\* a filter that consults only the manifest, never builtPaths
FilterPaths_ManifestOnly(cands, r, built, m) ==
    SelectSeq(cands, LAMBDA p : matchRoute(p, m) = r)

\* a filter that also skips a pathname it has already kept in this pass
FilterPaths_FirstOnly(cands, r, built, m) ==
    LET keep(i) ==
            /\ \/ removeTrailingForwardSlash(cands[i]) \notin built
               \/ matchRoute(cands[i], m) = r
            /\ \A j \in 1..(i - 1) : cands[j] # cands[i]
        F[i \in 0..Len(cands)] ==
            IF i = 0 THEN <<>>
            ELSE IF keep(i) THEN Append(F[i - 1], cands[i]) ELSE F[i - 1]
    IN F[Len(cands)]

\* a filter that also drops an empty generated pathname
FilterPaths_DropEmpty(cands, r, built, m) ==
    SelectSeq(cands,
              LAMBDA p : /\ p # <<>>
                         /\ \/ removeTrailingForwardSlash(p) \notin built
                            \/ matchRoute(p, m) = r)

\* a filter that hands back what it kept in reverse order
FilterPaths_Reversed(cands, r, built, m) ==
    LET kept == SelectSeq(cands,
                          LAMBDA p : \/ removeTrailingForwardSlash(p) \notin built
                                     \/ matchRoute(p, m) = r)
    IN [i \in 1..Len(kept) |-> kept[Len(kept) + 1 - i]]

\* a filter that never arbitrates: every enumerated path is kept
FilterPaths_KeepAll(cands, r, built, m) == cands

\* the filter of generate.ts:263-276 over the mapped enumeration
FilterPaths(cands, r, built, m) ==
    SelectSeq(cands,
              LAMBDA p : \/ removeTrailingForwardSlash(p) \notin built
                         \/ matchRoute(p, m) = r)

\* a loop that registers the returned paths as they are
AddStaticPaths_Raw(built, ps) == built \cup { ps[i] : i \in 1..Len(ps) }

\* the loop of generate.ts:279-281
AddStaticPaths(built, ps) ==
    built \cup { removeTrailingForwardSlash(ps[i]) : i \in 1..Len(ps) }

\* a fixed-pathname branch that forgets to register the pathname
AddFixedPath_None(built, pathname) == built

\* generate.ts:231-233, the branch for a route with a fixed pathname
AddFixedPath(built, pathname) == built \cup {pathname}

\* ------------------------------------------------------------- page styles
\* a comparator that puts the smaller depth first
cssOrder_Ascending(a, b) ==
    IF a.order = -1 /\ b.order >= 0 THEN 1
    ELSE IF b.order = -1 /\ a.order >= 0 THEN -1
    ELSE IF a.order > b.order THEN 1
    ELSE IF a.order < b.order THEN -1
    ELSE IF a.depth = -1 THEN -1
    ELSE IF b.depth = -1 THEN 1
    ELSE IF a.depth > b.depth THEN 1 ELSE -1

\* cssOrder (generate.ts:791-814): the comparator handed to Array.sort
cssOrder(a, b) ==
    IF a.order = -1 /\ b.order >= 0 THEN 1
    ELSE IF b.order = -1 /\ a.order >= 0 THEN -1
    ELSE IF a.order > b.order THEN 1
    ELSE IF a.order < b.order THEN -1
    ELSE IF a.depth = -1 THEN -1
    ELSE IF b.depth = -1 THEN 1
    ELSE IF a.depth > b.depth THEN -1 ELSE 1

\* x put into the sorted list acc, after the last element not greater than it
RECURSIVE InsertStyle(_, _)
InsertStyle(acc, x) ==
    IF Len(acc) = 0 THEN <<x>>
    ELSE IF cssOrder(acc[Len(acc)], x) > 0
         THEN Append(InsertStyle(SubSeq(acc, 1, Len(acc) - 1), x), acc[Len(acc)])
         ELSE Append(acc, x)

\* a sort that works on a copy and leaves the list it was given alone
SortStyles_Copy(list) == list

\* pageData.styles.sort(cssOrder) (generate.ts:177-178): Array.sort orders
\* the array it is called on, in place
SortStyles(list) ==
    LET F[i \in 0..Len(list)] ==
            IF i = 0 THEN <<>> ELSE InsertStyle(F[i - 1], list[i])
    IN F[Len(list)]

\* an ssr test that leaves hybrid output out
Ssr_ServerOnly(out) == out = "server"

\* Ssr (generate.ts:98): server output, or hybrid output
Ssr(out) == out \in {"server", "hybrid"}

\* hasPrerenderedPages (generate.ts:771-778)
hasPrerenderedPages(pre, pgs) == \E i \in 1..Len(pgs) : pre[pgs[i]]

\* an image loop that is never entered
ImagesPending_Never(enabled, done) == FALSE

\* the image loop of generate.ts:127-131 has a static image left
ImagesPending(enabled, done) == enabled /\ done < ImageCount

\* a bundle check made whatever the stages of the injected scripts
BundleMissing_IgnoresStage(stages, map) == PAGE_SCRIPT_ID \notin map

\* the bundle check of generate.ts:391-395
BundleMissing(stages, map) == "page" \in stages /\ PAGE_SCRIPT_ID \notin map

\* ----------------------------------------------------------------- actions
\* generatePages loop head + generatePage up to the draft check
\* (generate.ts:119-123, 169-194)
ImportPage ==
    /\ pc = "pages"
    /\ pageIdx <= Len(pages)
    /\ Ssr(output) => prerender[cur]
    /\ styles' = [styles EXCEPT ![cur] = SortStyles(@)]
    /\ \E mod \in ModuleKinds(route.markdown) :
        /\ curMod' = mod
        /\ IF shouldSkipDraft(mod, draftsEnabled)
           THEN /\ skipped' = skipped \cup {cur}
                /\ pageIdx' = pageIdx + 1
                /\ UNCHANGED pc
           ELSE /\ pc' = "resolve"
                /\ UNCHANGED <<pageIdx, skipped>>
    /\ UNCHANGED <<config, inflight, resolution, imagesDone, aside,
                   paths, pathIdx, store, disk, pageNames, error, hookRuns,
                   resolveHist, genHist, thrown, errHist>>

\* getPathsForRoute for a route with a fixed pathname (generate.ts:230-234)
GetPathsFixed ==
    /\ pc = "resolve"
    /\ Truthy(route.pathname)
    /\ paths' = <<route.pathname>>
    /\ builtPaths' = AddFixedPath(builtPaths, route.pathname)
    /\ pathIdx' = 1
    /\ pc' = "paths"
    /\ candidates' = [candidates EXCEPT ![cur] = <<route.pathname>>]
    /\ returned' = [returned EXCEPT ![cur] = paths']
    /\ builtBefore' = [builtBefore EXCEPT ![cur] = builtPaths]
    /\ resolvedRoutes' = resolvedRoutes \cup {cur}
    /\ UNCHANGED <<config, inflight, styles, resolution, imagesDone, aside,
                   pageIdx, curMod, routeCache, disk, pageNames, error,
                   hookRuns, gspCalls, previous, genHist, thrown, skipped,
                   errHist>>

\* a cache rebuilt from scratch on every write
CacheSet_Fresh(cache, r, staticPaths) ==
    [x \in RouteIds |-> IF x = r THEN [set |-> TRUE, staticPaths |-> staticPaths]
                        ELSE NoEntry]

\* opts.routeCache.set(route, result) (generate.ts:259)
CacheSet(cache, r, staticPaths) ==
    [cache EXCEPT ![r] = [set |-> TRUE, staticPaths |-> staticPaths]]

\* the body of getPathsForRoute for a dynamic route once callGetStaticPaths
\* has resolved with the enumeration cands (generate.ts:258-284)
ResolveDynamic(cands) ==
    /\ routeCache' = CacheSet(routeCache, cur, cands)
    /\ paths' = FilterPaths(cands, cur, builtPaths, manifest)
    /\ builtPaths' = AddStaticPaths(builtPaths, paths')
    /\ candidates' = [candidates EXCEPT ![cur] = cands]
    /\ returned' = [returned EXCEPT ![cur] = paths']
    /\ previous' = [previous EXCEPT ![cur] = returned[cur]]
    /\ gspCalls' = [gspCalls EXCEPT ![cur] = @ + 1]
    /\ builtBefore' = [builtBefore EXCEPT ![cur] = builtPaths]
    /\ resolvedRoutes' = resolvedRoutes \cup {cur}
    /\ pathIdx' = 1
    /\ pc' = "paths"
    /\ UNCHANGED <<config, inflight, styles, resolution, imagesDone, aside,
                   pageIdx, curMod, disk, pageNames, error, hookRuns,
                   genHist, thrown, skipped, errHist>>

\* getPathsForRoute for a dynamic route whose callGetStaticPaths resolves
\* (generate.ts:235-284)
GetPathsDynamic ==
    /\ pc = "resolve"
    /\ ~Truthy(route.pathname)
    /\ \E cands \in SeqsUpTo(RoutePaths(route), MaxStaticPaths) : ResolveDynamic(cands)

\* a getPathsForRoute that reserves the cache entry before awaiting the callback
GetPathsFails_CachesFirst ==
    /\ pc = "resolve"
    /\ ~Truthy(route.pathname)
    /\ routeCache' = CacheSet(routeCache, cur, <<>>)
    /\ gspCalls' = [gspCalls EXCEPT ![cur] = @ + 1]
    /\ thrown' = "StaticPathsError"
    /\ error' = "StaticPathsError"
    /\ pc' = "failed"
    /\ UNCHANGED <<config, inflight, styles, resolution, imagesDone, aside,
                   pageIdx, curMod, paths, pathIdx, builtPaths, disk,
                   pageNames, hookRuns, candidates, returned, previous, builtBefore,
                   resolvedRoutes, genHist, skipped, errHist>>

\* callGetStaticPaths rejects: the .catch rethrows (generate.ts:253-256)
GetPathsFails ==
    /\ pc = "resolve"
    /\ ~Truthy(route.pathname)
    /\ gspCalls' = [gspCalls EXCEPT ![cur] = @ + 1]
    /\ thrown' = "StaticPathsError"
    /\ error' = "StaticPathsError"
    /\ pc' = "failed"
    /\ UNCHANGED <<config, inflight, styles, resolution, imagesDone, aside,
                   pageIdx, curMod, paths, pathIdx, store, disk, pageNames,
                   hookRuns, candidates, returned, previous, builtBefore,
                   resolvedRoutes, genHist, skipped, errHist>>

\* ------------------------------------------------------------- generatePath
\* how one generatePath call ends: it writes the file, returns early because
\* the response has no body, or throws at one of its stages
Outcomes == {"ok", "nobody", "bundle", "render", "redirect", "mkdir", "write"}

ErrorOf(outcome) ==
    CASE outcome = "bundle" -> "MissingBundleEntryError"
      [] outcome = "render" -> "RenderError"
      [] outcome = "redirect" -> "RedirectNotAllowedError"
      [] outcome = "mkdir" -> "FsError"
      [] outcome = "write" -> "FsError"
      [] OTHER -> "none"

\* a generatePage loop that catches render errors and moves on
Propagates_SwallowRender(err) == err \notin {"none", "RenderError"}

\* generatePage and generatePages have no handler: whatever generatePath
\* throws rejects generatePages (generate.ts:123, 214; the catch of
\* generate.ts:516-521 rethrows)
Propagates(err) == err # "none"

\* the body a route's render returns for a pathname
Body(r, p) == [route |-> r, path |-> p]

\* the errors a render (callEndpoint, callMiddleware or renderPage) can throw
RenderErrors ==
    { [kind |-> "astro", id |-> "none"],
      [kind |-> "object", id |-> "none"],
      [kind |-> "object", id |-> "dep.astro"],
      [kind |-> "primitive", id |-> "none"] }

Raises(outcome) == IF outcome = "render" THEN RenderErrors ELSE {NoError}

\* a handler that stamps the component over whatever the error carries
TagError_Overwrite(e, type, component) ==
    IF type # "endpoint" /\ e.kind = "object" THEN component ELSE e.id

\* a handler that also wraps the endpoint call
TagError_BothBranches(e, type, component) ==
    IF e.kind = "object" /\ e.id = "none" THEN component ELSE e.id

\* the identifier on the error once it leaves generatePath: the catch of
\* generate.ts:516-521 exists on the page branch only, and tags an error that
\* is not an AstroError, carries no id and is an object; the endpoint branch
\* (generate.ts:471-491) has no handler
TagError(e, type, component) ==
    IF type # "endpoint" /\ e.kind = "object" /\ e.id = "none"
    THEN component
    ELSE e.id

\* the response of the render, as the checks of generate.ts:482-485 and
\* 522-524 see it: a disallowed redirect, a response without a body, or a
\* response with one; "none" when the render was not reached or threw
ResponseOf(outcome) ==
    CASE outcome \in {"bundle", "render"} -> "none"
      [] outcome = "redirect" -> "redirect"
      [] outcome = "nobody" -> "nobody"
      [] OTHER -> "body"

\* the stages of generatePath in source order; an outcome names the stage at
\* which the call ends, so a stage runs for the outcomes that end at or after it
\* render: generate.ts:474 / 505-514, after the bundle check of 391-395
Renders(outcome) == outcome # "bundle"

\* a generatePath that records the output file before looking at the body
SetsDistURL_BeforeBodyCheck(outcome) == outcome \in {"ok", "mkdir", "write", "nobody"}

\* route.distURL = outFile: generate.ts:530, after the redirect and body checks
SetsDistURL(outcome) == outcome \in {"ok", "mkdir", "write"}

\* a generatePath that creates the output folder before checking the response
MakesDir_BeforeRedirectCheck(outcome) == outcome \in {"ok", "write", "redirect", "nobody"}

\* mkdir: generate.ts:531
MakesDir(outcome) == outcome \in {"ok", "write"}

\* writeFile: generate.ts:532
Writes(outcome) == outcome = "ok"

\* one whole generatePath(paths[i]) call (generate.ts:354-533)
RunGeneratePath(outcome) ==
    /\ pc = "paths"
    /\ pathIdx <= Len(paths)
    /\ outcome = "nobody" => Len(renderLog) - Len(writeLog) < MaxNoBody
    /\ outcome = "bundle" <=> BundleMissing(scriptStages, bundleMap)
    /\ LET p == paths[pathIdx]
           outFolder == OutFolder(p, route.type, buildFormat)
           outFile == OutFile(p, route.type, buildFormat)
       IN /\ pageNames' = IF route.type = "page"
                          THEN Append(pageNames, PageName(p, trailingSlash, buildFormat))
                          ELSE pageNames
          /\ renderLog' = IF Renders(outcome)
                          THEN Append(renderLog, [route |-> cur, path |-> p])
                          ELSE renderLog
          /\ distURL' = IF SetsDistURL(outcome)
                        THEN [distURL EXCEPT ![cur] = outFile]
                        ELSE distURL
          /\ folders' = IF MakesDir(outcome)
                        THEN folders \cup {outFolder}
                        ELSE folders
          /\ files' = IF Writes(outcome)
                      THEN (outFile :> Body(cur, p)) @@ files
                      ELSE files
          /\ writeLog' = IF Writes(outcome)
                         THEN Append(writeLog, [route |-> cur, path |-> p, file |-> outFile])
                         ELSE writeLog
    /\ \E e \in Raises(outcome) :
        /\ raised' = e
        /\ errorId' = TagError(e, route.type, route.component)
    /\ response' = ResponseOf(outcome)
    /\ thrown' = ErrorOf(outcome)
    /\ IF Propagates(thrown')
       THEN /\ pc' = "failed"
            /\ error' = thrown'
            /\ UNCHANGED pathIdx
       ELSE /\ pathIdx' = pathIdx + 1
            /\ UNCHANGED <<pc, error>>
    /\ UNCHANGED <<config, styles, imagesDone, aside, pageIdx, curMod, paths, store,
                   hookRuns, resolveHist, skipped>>

\* generatePath(paths[i]) of the loop generate.ts:212-221, awaited as a whole
GeneratePath(outcome) ==
    /\ RunGeneratePath(outcome)
    /\ UNCHANGED <<inflight, resolution>>

\* generatePage returns after its last path (generate.ts:221-222)
FinishPage ==
    /\ pc = "paths"
    /\ pathIdx > Len(paths)
    /\ pageIdx' = pageIdx + 1
    /\ paths' = <<>>
    /\ pathIdx' = 1
    /\ pc' = "pages"
    /\ UNCHANGED <<config, inflight, styles, resolution, imagesDone, aside,
                   curMod, store, disk, pageNames, error, hookRuns, history>>

\* after the last page: runHookBuildGenerated (generate.ts:136-142)
FinishPages ==
    /\ pc = "pages"
    /\ pageIdx > Len(pages)
    /\ ~ImagesPending(assets, imagesDone)
    /\ hookRuns' = hookRuns + 1
    /\ pc' = "done"
    /\ UNCHANGED <<config, inflight, styles, resolution, imagesDone, aside,
                   pageIdx, curMod, paths, pathIdx, store, disk, pageNames,
                   error, history>>

Next ==
    \/ ImportPage
    \/ GetPathsFixed
    \/ GetPathsDynamic
    \/ GetPathsFails
    \/ \E outcome \in Outcomes : GeneratePath(outcome)
    \/ FinishPage
    \/ FinishPages

Spec == Init /\ [][Next]_vars

\* a caller that resolves the current dynamic route a second time, the
\* callback returning the enumeration it returned before
GetPathsAgain ==
    /\ pc = "paths"
    /\ pathIdx = 1
    /\ ~Truthy(route.pathname)
    /\ gspCalls[cur] = 1
    /\ ResolveDynamic(routeCache[cur].staticPaths)

NextTwice == Next \/ GetPathsAgain

SpecTwice == Init /\ [][NextTwice]_vars

\* ------------------------------------------------- a build with an endpoint
\* a dynamic endpoint route: generatePath takes the branch of generate.ts:471-491
EndpointRoute ==
    [component |-> "[a].json.ts", pathname |-> NoPath, type |-> "endpoint",
     pattern |-> {PX, PXS}, generates |-> {PX}, markdown |-> FALSE]

EndpointManifests ==
    { <<IndexRoute, EndpointRoute, SpreadRoute>>,
      <<IndexRoute, EndpointRoute, RestRoute>> }

InitEndpoint == Start(EndpointManifests, Builds)

SpecEndpoint == InitEndpoint /\ [][Next]_vars

\* ------------------------------------------- generatePath as start and settle
\* a loop that fires generatePath without awaiting it
Awaited_Never(n) == TRUE

\* `await generatePath(...)` (generate.ts:214) and `await generatePage(...)`
\* (generate.ts:114, 123): the caller resumes only when the call has settled
Awaited(n) == n = 0

\* the loop body of generate.ts:212-215 calls generatePath
BeginPath ==
    /\ pc = "paths"
    /\ pathIdx <= Len(paths)
    /\ Awaited(inflight)
    /\ inflight' = inflight + 1
    /\ UNCHANGED <<config, control, store, disk, pageNames, error, hookRuns, history,
                   styles, resolution, imagesDone, aside>>

\* the generatePath call started last settles
SettlePath(outcome) ==
    /\ inflight > 0
    /\ RunGeneratePath(outcome)
    /\ inflight' = inflight - 1
    /\ UNCHANGED resolution

NextAwait ==
    \/ Awaited(inflight) /\ ImportPage
    \/ Awaited(inflight) /\ GetPathsFixed
    \/ Awaited(inflight) /\ GetPathsDynamic
    \/ Awaited(inflight) /\ GetPathsFails
    \/ BeginPath
    \/ \E outcome \in Outcomes : SettlePath(outcome)
    \/ Awaited(inflight) /\ FinishPage
    \/ Awaited(inflight) /\ FinishPages

InitAwait == Start({ <<IndexRoute, ParamRoute, SpreadRoute>> }, Builds)

SpecAwait == InitAwait /\ [][NextAwait]_vars

\* ------------------------------------------------- setAdapter (config:done)
AdapterNames == {"node", "vercel", "deno"}

\* a setAdapter that accepts any adapter
Conflicts_Never(current, name) == FALSE

\* the test of integrations/index.ts:135: an adapter is set and its name is
\* not the name of the one passed
Conflicts(current, name) == current # "none" /\ current # name

\* settings.adapter is undefined before the astro:config:done hooks run;
\* obj is the call that passed the object settings.adapter holds
InitAdapter ==
    /\ adapter = [name |-> "none", obj |-> 0, calls |-> <<>>, failed |-> FALSE]
    /\ call = NoCall
    /\ runner = NoRunner
    /\ RestIdle
    /\ manifest = <<IndexRoute, ParamRoute, SpreadRoute>>
    /\ pages = <<1, 2, 3>>
    /\ draftsEnabled = FALSE
    /\ trailingSlash = "ignore"
    /\ buildFormat = "directory"
    /\ scriptStages = {}
    /\ bundleMap = Specifiers
    /\ output = "static"
    /\ prerender = [r \in RouteIds |-> TRUE]
    /\ assets = FALSE
    /\ StartState

\* a hook calls setAdapter({name}) (integrations/index.ts:134-141); the hook
\* either catches a thrown error or lets it reject runHookConfigDone
SetAdapter(name, caught) ==
    /\ ~adapter.failed
    /\ Len(adapter.calls) < MaxAdapterCalls
    /\ IF Conflicts(adapter.name, name)
       THEN adapter' = [adapter EXCEPT
                !.calls = Append(@, [name |-> name, threw |-> TRUE]),
                !.failed = ~caught]
       ELSE /\ caught
            /\ adapter' = [adapter EXCEPT
                !.name = name,
                !.obj = Len(adapter.calls) + 1,
                !.calls = Append(@, [name |-> name, threw |-> FALSE])]
    /\ UNCHANGED <<build, call, runner, rest>>

NextAdapter == \E name \in AdapterNames, caught \in BOOLEAN : SetAdapter(name, caught)

SpecAdapter == InitAdapter /\ [][NextAdapter]_vars

\* ---------------------------------------- output modes and optimized images
\* every output mode, prerender flag per route and assets setting
SsrBuilds ==
    { [scriptStages |-> {}, bundleMap |-> Specifiers, output |-> out,
       prerender |-> pre, assets |-> a] :
        out \in {"static", "server", "hybrid"},
        pre \in [RouteIds -> BOOLEAN],
        a \in BOOLEAN }

InitSsr ==
    /\ Start({ <<IndexRoute, ParamRoute, SpreadRoute>> }, SsrBuilds)
    /\ trailingSlash = "ignore"
    /\ pages \in { <<1, 2, 3>>, <<3, 1, 2>> }

\* the return of generate.ts:102: ssr output without a prerendered page
ReturnEarly ==
    /\ pc = "pages"
    /\ pageIdx = 1
    /\ Ssr(output)
    /\ ~hasPrerenderedPages(prerender, pages)
    /\ pc' = "returned"
    /\ UNCHANGED <<config, inflight, styles, resolution, imagesDone, aside,
                   pageIdx, curMod, paths, pathIdx, store, disk, pageNames,
                   error, hookRuns, history>>

\* the ssr loop passing over a page whose route is rendered on demand
\* (generate.ts:110-111)
SkipOnDemand ==
    /\ pc = "pages"
    /\ pageIdx <= Len(pages)
    /\ Ssr(output)
    /\ hasPrerenderedPages(prerender, pages)
    /\ ~prerender[cur]
    /\ pageIdx' = pageIdx + 1
    /\ UNCHANGED <<config, inflight, styles, resolution, imagesDone, aside,
                   pc, curMod, paths, pathIdx, store, disk, pageNames,
                   error, hookRuns, history>>

\* one generateImage call of the loop generate.ts:129-131; a rejection of
\* generateImageInternal (generate.ts:152) rejects generatePages
GenerateImage(ok) ==
    /\ pc = "pages"
    /\ pageIdx > Len(pages)
    /\ ImagesPending(assets, imagesDone)
    /\ IF ok
       THEN /\ imagesDone' = imagesDone + 1
            /\ UNCHANGED <<pc, error>>
       ELSE /\ pc' = "failed"
            /\ error' = "ImageError"
            /\ UNCHANGED imagesDone
    /\ UNCHANGED <<config, inflight, styles, resolution, aside,
                   pageIdx, curMod, paths, pathIdx, store, disk, pageNames,
                   hookRuns, history>>

NextSsr ==
    \/ ReturnEarly
    \/ SkipOnDemand
    \/ ImportPage
    \/ GetPathsFixed
    \/ GetPathsDynamic
    \/ GetPathsFails
    \/ \E outcome \in Outcomes : GeneratePath(outcome)
    \/ FinishPage
    \/ \E ok \in BOOLEAN : GenerateImage(ok)
    \/ FinishPages

SpecSsr == InitSsr /\ [][NextSsr]_vars

\* ------------------------------------------ builds with other bundle contents
\* every combination of an injected script stage and a bundle map
BundleBuilds ==
    { [scriptStages |-> st, bundleMap |-> map, output |-> "static",
       prerender |-> [r \in RouteIds |-> TRUE], assets |-> FALSE] :
        st \in { {}, {"page"}, {"head-inline"} }, map \in SUBSET Specifiers }

\* env.resolve (generate.ts:432-447): the asset link of a mapped specifier,
\* '' for the unmapped before-hydration script, an error for any other
Resolve(specifier, map) ==
    IF specifier \in map THEN "link"
    ELSE IF specifier = BEFORE_HYDRATION_SCRIPT_ID THEN "empty"
    ELSE "throws"

\* generatePath whose render asks env.resolve for a specifier; what the
\* renderer does with a failed resolution is not decided in generate.ts
GeneratePathResolving(outcome) ==
    /\ RunGeneratePath(outcome)
    /\ IF Renders(outcome)
       THEN \E s \in Specifiers :
                resolution' = [specifier |-> s, result |-> Resolve(s, bundleMap)]
       ELSE UNCHANGED resolution
    /\ UNCHANGED inflight

NextBundle ==
    \/ ImportPage
    \/ GetPathsFixed
    \/ GetPathsDynamic
    \/ GetPathsFails
    \/ \E outcome \in Outcomes : GeneratePathResolving(outcome)
    \/ FinishPage
    \/ FinishPages

InitBundle ==
    /\ Start({ <<IndexRoute, ParamRoute, SpreadRoute>> }, BundleBuilds)
    /\ draftsEnabled
    /\ trailingSlash = "ignore"
    /\ pages \in { <<1, 2, 3>>, <<3, 1, 2>> }

SpecBundle == InitBundle /\ [][NextBundle]_vars

\* ------------------------------- the Cloudflare adapter's astro:build:done
\* route.segments, flattened: one part per segment, "*" for a dynamic part
SegmentLists == { <<>>, <<"a">>, <<"*">>, <<"a", "*">>, <<"a", "b">> }

\* the routes handed to the hook: pages and endpoints, prerendered or not,
\* and a redirect route
CfRoutes ==
    { [type |-> t, prerender |-> p, segments |-> s, route |-> <<"/", "x">>] :
        t \in {"page", "endpoint"}, p \in BOOLEAN, s \in SegmentLists }
    \cup { [type |-> "redirect", prerender |-> FALSE, segments |-> <<"x">>,
            route |-> <<"/", "x">>] }

\* paths that end up in staticPathList: files of the client folder, page
\* paths and redirect sources
CfStaticPaths == { <<"/">>, <<"/", "a">>, <<"/", "a", "/", "b">>, <<"/", "x">> }

CfRouteLists == UNION { [1..n -> CfRoutes] : n \in 0..MaxCfRoutes }
CfStaticLists == UNION { [1..n -> CfStaticPaths] : n \in 0..MaxCfStatic }

\* parts.join(sep) for parts of one character each
RECURSIVE JoinWith(_, _)
JoinWith(parts, sep) ==
    IF parts = <<>> THEN <<>>
    ELSE IF Len(parts) = 1 THEN parts
    ELSE <<Head(parts)>> \o sep \o JoinWith(Tail(parts), sep)

\* includePattern (cloudflare/src/index.ts:282-287): '/' and the segments joined by '/'
IncludePattern(r) == <<"/">> \o JoinWith(r.segments, <<"/">>)

\* the route's regexp (cloudflare/src/index.ts:289-296) tested on a path: the whole path
\* is matched, a dynamic part by (.*)
RECURSIVE RegexpTest(_, _)
RegexpTest(pattern, path) ==
    IF pattern = <<>> THEN path = <<>>
    ELSE IF Head(pattern) = "*"
         THEN \E k \in 0..Len(path) :
                RegexpTest(Tail(pattern), SubSeq(path, k + 1, Len(path)))
         ELSE /\ path # <<>>
              /\ Head(path) = Head(pattern)
              /\ RegexpTest(Tail(pattern), Tail(path))

\* routes that run as functions (cloudflare/src/index.ts:278-280)
FunctionEndpoints(rs) ==
    SelectSeq(rs, LAMBDA r : r.type \in {"endpoint", "page"} /\ ~r.prerender)

\* staticPathList with the redirect routes pushed (cloudflare/src/index.ts:374)
StaticPathList(rs, static) ==
    static \o [i \in 1..Len(SelectSeq(rs, LAMBDA r : r.type = "redirect")) |->
                    SelectSeq(rs, LAMBDA r : r.type = "redirect")[i].route]

\* [...new Set(patterns)]: the first occurrence of every pattern, in order
UniquePatterns(patterns) ==
    LET first == { i \in 1..Len(patterns) :
                        \A j \in 1..(i - 1) : patterns[j] # patterns[i] }
        F[i \in 0..Len(patterns)] ==
            IF i = 0 THEN <<>>
            ELSE IF i \in first THEN Append(F[i - 1], patterns[i]) ELSE F[i - 1]
    IN F[Len(patterns)]

\* sort((a, b) => a.length - b.length): by length, ties in the order found
RECURSIVE InsertByLength(_, _)
InsertByLength(acc, x) ==
    IF acc = <<>> THEN <<x>>
    ELSE IF Len(acc[Len(acc)]) > Len(x)
         THEN Append(InsertByLength(SubSeq(acc, 1, Len(acc) - 1), x), acc[Len(acc)])
         ELSE Append(acc, x)

SortByLength(patterns) ==
    LET F[i \in 0..Len(patterns)] ==
            IF i = 0 THEN <<>> ELSE InsertByLength(F[i - 1], patterns[i])
    IN F[Len(patterns)]

EndsWithStar(pattern) == pattern # <<>> /\ pattern[Len(pattern)] = "*"

\* pattern.replace(/(\*\/)*\*$/g, '.*') without the '.*': what has to open
\* a pattern for the open pattern to cover it
RECURSIVE OpenPrefix(_)
OpenPrefix(pattern) ==
    LET n == Len(pattern)
        cut == SubSeq(pattern, 1, n - 1)
    IN  IF n >= 2 /\ cut[n - 1] = "/" /\ n >= 3 /\ cut[n - 2] = "*"
        THEN OpenPrefix(SubSeq(pattern, 1, n - 2))
        ELSE cut

IsPrefixOf(p, s) == Len(p) <= Len(s) /\ SubSeq(s, 1, Len(p)) = p

\* deduplicatePatterns (cloudflare/src/index.ts:431-446)
deduplicatePatterns(patterns) ==
    LET sorted == SortByLength(UniquePatterns(patterns))
        F[i \in 0..Len(sorted)] ==
            IF i = 0 THEN [kept |-> <<>>, open |-> {}]
            ELSE LET pattern == sorted[i]
                     prev == F[i - 1]
                 IN  IF \E p \in prev.open : IsPrefixOf(p, pattern)
                     THEN prev
                     ELSE [kept |-> Append(prev.kept, pattern),
                           open |-> IF EndsWithStar(pattern)
                                    THEN prev.open \cup {OpenPrefix(pattern)}
                                    ELSE prev.open]
    IN F[Len(sorted)].kept

\* an adapter that writes the lists as it computed them
AtLeastOneInclude_Skipped(lists) == lists

\* Cloudflare requires at least one include pattern (cloudflare/src/index.ts:387-393)
AtLeastOneInclude(lists) ==
    IF Len(lists.include) = 0
    THEN [include |-> << <<"/">> >>, exclude |-> << <<"/">> >>]
    ELSE lists

\* the include and exclude arrays of _routes.json (cloudflare/src/index.ts:376-400)
RoutesJson(rs, static) ==
    LET functionEndpoints == FunctionEndpoints(rs)
        staticPathList == StaticPathList(rs, static)
        first == AtLeastOneInclude(
            [include |-> deduplicatePatterns(
                            [i \in 1..Len(functionEndpoints) |->
                                IncludePattern(functionEndpoints[i])]),
             exclude |-> deduplicatePatterns(
                            SelectSeq(staticPathList, LAMBDA file :
                                \E i \in 1..Len(functionEndpoints) :
                                    RegexpTest(IncludePattern(functionEndpoints[i]), file)))])
    IN  IF Len(first.include) + Len(first.exclude) > Len(staticPathList)
        THEN [include |-> << <<"/", "*">> >>,
              exclude |-> deduplicatePatterns(staticPathList)]
        ELSE first

\* the hook is handed the routes, finds the static paths, and finds a
\* _routes.json in the output or not
InitCf ==
    /\ \E rs \in CfRouteLists, static \in CfStaticLists, exists \in BOOLEAN :
        routes = [step |-> "start", routes |-> rs, static |-> static,
                  routesExists |-> exists, written |-> FALSE,
                  include |-> <<>>, exclude |-> <<>>]
    /\ result = NoResult
    /\ service = NoService
    /\ call = NoCall
    /\ runner = NoRunner
    /\ adapter = NoAdapter
    /\ manifest = <<IndexRoute, ParamRoute, SpreadRoute>>
    /\ pages = <<1, 2, 3>>
    /\ draftsEnabled = FALSE
    /\ trailingSlash = "ignore"
    /\ buildFormat = "directory"
    /\ scriptStages = {}
    /\ bundleMap = Specifiers
    /\ output = "static"
    /\ prerender = [r \in RouteIds |-> TRUE]
    /\ assets = FALSE
    /\ StartState

CfIdle == UNCHANGED <<build, call, runner, adapter, result, service>>

\* a _routes.json is present: the hook leaves it (cloudflare/src/index.ts:269-277)
KeepRoutesJson ==
    /\ routes.step = "start"
    /\ routes.routesExists
    /\ routes' = [routes EXCEPT !.step = "done"]
    /\ CfIdle

\* none is present: the hook computes and writes one (cloudflare/src/index.ts:277-413)
WriteRoutesJson ==
    /\ routes.step = "start"
    /\ ~routes.routesExists
    /\ LET json == RoutesJson(routes.routes, routes.static)
       IN  routes' = [routes EXCEPT !.step = "done",
                                    !.written = TRUE,
                                    !.include = json.include,
                                    !.exclude = json.exclude]
    /\ CfIdle

NextCf ==
    \/ KeepRoutesJson
    \/ WriteRoutesJson

SpecCf == InitCf /\ [][NextCf]_vars

\* ------------------------------------------------ the configured image service
ServiceCalls == 1..MaxServiceCalls

\* the object the module 'virtual:image-service' exports by default; the
\* module loader evaluates a module once and hands the same module to every
\* import() of it
ServiceObject == 1

\* a test that never finds the service
ServiceSet_Never(global) == FALSE

\* the test of internal.ts:53 on globalThis.astroAsset.imageService
ServiceSet(global) == global # 0

\* no call yet, globalThis.astroAsset.imageService unset; the module is
\* valid or fails to load
InitService ==
    /\ \E m \in {"valid", "invalid"} :
        service = [module |-> m, global |-> 0, evaluated |-> 0, imports |-> 0,
                   calls |-> [c \in ServiceCalls |-> [pc |-> "idle", got |-> 0]],
                   log |-> <<>>]
    /\ result = NoResult
    /\ routes = NoRoutes
    /\ call = NoCall
    /\ runner = NoRunner
    /\ adapter = NoAdapter
    /\ manifest = <<IndexRoute, ParamRoute, SpreadRoute>>
    /\ pages = <<1, 2, 3>>
    /\ draftsEnabled = FALSE
    /\ trailingSlash = "ignore"
    /\ buildFormat = "directory"
    /\ scriptStages = {}
    /\ bundleMap = Specifiers
    /\ output = "static"
    /\ prerender = [r \in RouteIds |-> TRUE]
    /\ assets = FALSE
    /\ StartState

ServiceIdle == UNCHANGED <<build, call, runner, adapter, result, routes>>

\* a call runs up to its first await (internal.ts:53-56): it returns the
\* stored service, or starts an import
EnterService(c) ==
    /\ service.calls[c].pc = "idle"
    /\ IF ServiceSet(service.global)
       THEN service' = [service EXCEPT
                !.calls[c] = [pc |-> "returned", got |-> service.global],
                !.log = Append(@, [call |-> c, event |-> "stored"])]
       ELSE service' = [service EXCEPT
                !.calls[c] = [pc |-> "importing", got |-> 0],
                !.imports = @ + 1,
                !.log = Append(@, [call |-> c, event |-> "import"])]
    /\ ServiceIdle

\* the import of a call resolves: the call stores the service and returns
\* it (internal.ts:63-65)
ImportResolves(c) ==
    /\ service.calls[c].pc = "importing"
    /\ service.module = "valid"
    /\ service' = [service EXCEPT
            !.evaluated = 1,
            !.global = ServiceObject,
            !.calls[c] = [pc |-> "returned", got |-> ServiceObject],
            !.log = Append(@, [call |-> c, event |-> "loaded"])]
    /\ ServiceIdle

\* the import of a call rejects: the call throws InvalidImageService
\* (internal.ts:57-61)
ImportRejects(c) ==
    /\ service.calls[c].pc = "importing"
    /\ service.module = "invalid"
    /\ service' = [service EXCEPT
            !.calls[c] = [pc |-> "threw", got |-> 0],
            !.log = Append(@, [call |-> c, event |-> "threw"])]
    /\ ServiceIdle

NextService ==
    \/ \E c \in ServiceCalls : EnterService(c)
    \/ \E c \in ServiceCalls : ImportResolves(c)
    \/ \E c \in ServiceCalls : ImportRejects(c)

SpecService == InitService /\ [][NextService]_vars

\* ------------------------------------------------ the stylesheet helpers
\* order records of pageData.styles: order and depth are integers from -1
OrderRecords == { [order |-> o, depth |-> d] : o \in -1..MaxOrder, d \in -1..MaxDepth }

\* stylesheet assets: inline sheets by their content, external ones by src
SheetKinds ==
    { [type |-> "inline", content |-> <<>>],
      [type |-> "inline", content |-> <<"a">>],
      [type |-> "inline", content |-> <<"b">>],
      [type |-> "external", src |-> "x"],
      [type |-> "external", src |-> "y"] }

SheetLists == UNION { [1..n -> SheetKinds] : n \in 0..MaxSheets }

IsInline(sheet) == sheet.type = "inline"

\* a reducer that appends every sheet
mergeInlineCss_Push(acc, current) == Append(acc, current)

\* mergeInlineCss (generate.ts:816-830)
mergeInlineCss(acc, current) ==
    LET lastWasInline == Len(acc) > 0 /\ IsInline(acc[Len(acc)])
        currentIsInline == IsInline(current)
    IN  IF lastWasInline /\ currentIsInline
        THEN [acc EXCEPT ![Len(acc)] =
                [type |-> "inline", content |-> acc[Len(acc)].content \o current.content]]
        ELSE Append(acc, current)

\* list.reduce(mergeInlineCss, []) (generate.ts:180)
ReduceSheets(list) ==
    LET F[i \in 0..Len(list)] ==
            IF i = 0 THEN <<>> ELSE mergeInlineCss(F[i - 1], list[i])
    IN F[Len(list)]

\* a call of cssOrder on two records, or a reduction of a list of sheets
InitCss ==
    /\ \/ \E a \in OrderRecords, b \in OrderRecords :
            call = [fn |-> "none", on |-> "records", a |-> a, b |-> b, list |-> <<>>,
                    cmp |-> 0, cmpRev |-> 0, cmpSelf |-> 0, merged |-> <<>>]
       \/ \E list \in SheetLists :
            call = [fn |-> "none", on |-> "sheets",
                    a |-> [order |-> 0, depth |-> 0], b |-> [order |-> 0, depth |-> 0],
                    list |-> list,
                    cmp |-> 0, cmpRev |-> 0, cmpSelf |-> 0, merged |-> <<>>]
    /\ runner = NoRunner
    /\ adapter = NoAdapter
    /\ RestIdle
    /\ manifest = <<IndexRoute, ParamRoute, SpreadRoute>>
    /\ pages = <<1, 2, 3>>
    /\ draftsEnabled = FALSE
    /\ trailingSlash = "ignore"
    /\ buildFormat = "directory"
    /\ scriptStages = {}
    /\ bundleMap = Specifiers
    /\ output = "static"
    /\ prerender = [r \in RouteIds |-> TRUE]
    /\ assets = FALSE
    /\ StartState

\* cssOrder applied to the pair both ways round, and to a with itself
CallCssOrder ==
    /\ call.fn = "none"
    /\ call.on = "records"
    /\ call' = [call EXCEPT !.fn = "cssOrder",
                            !.cmp = cssOrder(call.a, call.b),
                            !.cmpRev = cssOrder(call.b, call.a),
                            !.cmpSelf = cssOrder(call.a, call.a)]
    /\ UNCHANGED <<build, runner, adapter, rest>>

\* the reduction of generate.ts:180
CallReduce ==
    /\ call.fn = "none"
    /\ call.on = "sheets"
    /\ call' = [call EXCEPT !.fn = "mergeInlineCss",
                            !.merged = ReduceSheets(call.list)]
    /\ UNCHANGED <<build, runner, adapter, rest>>

NextCss ==
    \/ CallCssOrder
    \/ CallReduce

SpecCss == InitCss /\ [][NextCss]_vars

\* ------------------------------------------------ the head of an SSRResult
\* style elements: props objects by their keys in insertion order, children
\* strings
StyleKinds ==
    { [props |-> <<"a", "b">>, children |-> "x"],
      [props |-> <<"b", "a">>, children |-> "x"],
      [props |-> <<"a", "b">>, children |-> "y"],
      [props |-> <<"a">>, children |-> "x"] }

\* JSON.stringify(item.props) (head.ts:9): the keys are serialised in
\* insertion order
Stringify(props) == props

\* two props objects with the same keys and values, in whatever order
SameProps(p, q) == Range(p) = Range(q)

\* a filter that lets every element through
uniqueElements_All(item, index, all) == TRUE

\* uniqueElements (head.ts:8-14): the element is the first of the array
\* with its serialised props and its children
uniqueElements(item, index, all) ==
    LET hits == { j \in 1..Len(all) :
                    /\ Stringify(all[j].props) = Stringify(item.props)
                    /\ all[j].children = item.children }
        findIndex == IF hits = {} THEN -1
                     ELSE CHOOSE j \in hits : \A k \in hits : j <= k
    IN  index = findIndex

\* a head that is never taken to be injected
HeadInjected_Never(res) == FALSE

\* the test of maybeRenderHead (head.ts:59)
HeadInjected(res) == res.hasRenderedHead

\* Array.from(result.styles).filter(uniqueElements) (head.ts:24-26), as the
\* positions of the elements kept
KeptStyles(res) ==
    LET all == [i \in 1..Len(res.styles) |-> res.objs[res.styles[i]]]
    IN  SelectSeq([i \in 1..Len(all) |-> i],
                  LAMBDA i : uniqueElements(all[i], i, all))

\* renderAllHeadContent (head.ts:23-45): the kept styles are emitted and
\* result.styles is cleared; shown keeps the set as each render found it
renderAllHeadContent(res) ==
    LET kept == KeptStyles(res)
        out == [k \in 1..Len(kept) |->
                    [render |-> res.renders + 1, id |-> res.styles[kept[k]]]]
    IN  [res EXCEPT !.emitted = @ \o out,
                    !.shown = Append(@, res.styles),
                    !.styles = <<>>,
                    !.renders = @ + 1]

\* createRenderHead (head.ts:47-50) sets the flag before the content is rendered
createRenderHead(res) == [res EXCEPT !.hasRenderedHead = TRUE]

\* a result as createResult leaves it: no style yet, the head not rendered
InitHead ==
    /\ result = [objs |-> <<>>, styles |-> <<>>, hasRenderedHead |-> FALSE,
                 emitted |-> <<>>, shown |-> <<>>, renders |-> 0, heads |-> 0, noops |-> 0]
    /\ routes = NoRoutes
    /\ service = NoService
    /\ call = NoCall
    /\ runner = NoRunner
    /\ adapter = NoAdapter
    /\ manifest = <<IndexRoute, ParamRoute, SpreadRoute>>
    /\ pages = <<1, 2, 3>>
    /\ draftsEnabled = FALSE
    /\ trailingSlash = "ignore"
    /\ buildFormat = "directory"
    /\ scriptStages = {}
    /\ bundleMap = Specifiers
    /\ output = "static"
    /\ prerender = [r \in RouteIds |-> TRUE]
    /\ assets = FALSE
    /\ StartState

HeadIdle == UNCHANGED <<build, call, runner, adapter, routes, service>>

\* result.styles.add of a new element
CreateStyle(style) ==
    /\ Len(result.objs) < MaxStyles
    /\ result' = [result EXCEPT
            !.objs = Append(@, style),
            !.styles = Append(@, Len(result.objs) + 1)]
    /\ HeadIdle

\* result.styles.add of an element that was added before: a Set keeps an
\* element it holds where it is
AddAgain(id) ==
    /\ id \in 1..Len(result.objs)
    /\ id \notin Range(result.styles)
    /\ result' = [result EXCEPT !.styles = Append(@, id)]
    /\ HeadIdle

\* renderHead(result)() of a <head> element (head.ts:47-52)
RenderHead ==
    /\ result.renders < MaxRenders
    /\ result' = renderAllHeadContent(createRenderHead(result))
    /\ HeadIdle

\* maybeRenderHead advanced to its end (head.ts:58-63)
MaybeRenderHead ==
    /\ result.renders < MaxRenders
    /\ result.noops < MaxRenders
    /\ IF HeadInjected(result)
       THEN result' = [result EXCEPT !.noops = @ + 1]
       ELSE result' = [renderAllHeadContent(createRenderHead(result))
                            EXCEPT !.heads = @ + 1]
    /\ HeadIdle

NextHead ==
    \/ \E style \in StyleKinds : CreateStyle(style)
    \/ \E id \in 1..MaxStyles : AddAgain(id)
    \/ RenderHead
    \/ MaybeRenderHead

SpecHead == InitHead /\ [][NextHead]_vars

\* ------------------------------------------------- the pure path helpers
PBlog == <<"/", "b", "l", "o", "g">>
PBlogS == <<"/", "b", "l", "o", "g", "/">>
PNested == <<"/", "a", "/", "b">>
CallPaths == {Empty, Root, PX, PXS, PBlog, PBlogS, PNested}
\* settings.config.base
Bases == { <<"/">>, <<"/", "d", "/">> }
RouteTypes == {"page", "endpoint"}

\* a getUrlForPath that gives an endpoint the ending of a page
getUrlForPath_EndpointEnding(pathname, base, format, routeType) ==
    LET ending == IF format = "directory" THEN <<"/">> ELSE <<".html">>
    IN IF pathname = Root \/ pathname = Empty THEN base
       ELSE base \o removeTrailingForwardSlash(removeLeadingForwardSlash(pathname)) \o ending

\* getUrlForPath (generate.ts:326-352): the pathname of the URL it builds
getUrlForPath(pathname, base, format, routeType) ==
    LET ending == IF format = "directory" THEN <<"/">> ELSE <<".html">>
    IN IF pathname = Root \/ pathname = Empty THEN base
       ELSE IF routeType = "endpoint" THEN base \o removeLeadingForwardSlash(pathname)
       ELSE base \o removeTrailingForwardSlash(removeLeadingForwardSlash(pathname)) \o ending

\* the arguments of a call, no helper applied yet
InitCalls ==
    /\ \E p \in CallPaths, ts \in TrailingSlashes, fmt \in BuildFormats,
          b \in Bases, t \in RouteTypes :
        call = [fn |-> "none", pathname |-> p, trailingSlash |-> ts, format |-> fmt,
                base |-> b, routeType |-> t,
                appends |-> FALSE, url |-> <<>>, pageName |-> <<>>,
                outFolder |-> <<>>, outFile |-> <<>>]
    /\ runner = NoRunner
    /\ adapter = NoAdapter
    /\ RestIdle
    /\ manifest = <<IndexRoute, ParamRoute, SpreadRoute>>
    /\ pages = <<1, 2, 3>>
    /\ draftsEnabled = FALSE
    /\ trailingSlash = "ignore"
    /\ buildFormat = "directory"
    /\ scriptStages = {}
    /\ bundleMap = {}
    /\ output = "static"
    /\ prerender = [r \in RouteIds |-> TRUE]
    /\ assets = FALSE
    /\ StartState

CallShouldAppendForwardSlash ==
    /\ call.fn = "none"
    /\ call' = [call EXCEPT !.fn = "shouldAppendForwardSlash",
                            !.appends = shouldAppendForwardSlash(call.trailingSlash, call.format)]
    /\ UNCHANGED <<build, runner, adapter, rest>>

CallGetUrlForPath ==
    /\ call.fn = "none"
    /\ call' = [call EXCEPT !.fn = "getUrlForPath",
                            !.url = getUrlForPath(call.pathname, call.base, call.format,
                                                  call.routeType)]
    /\ UNCHANGED <<build, runner, adapter, rest>>

\* addPageName (generate.ts:317-324): the name it pushes
CallAddPageName ==
    /\ call.fn = "none"
    /\ call' = [call EXCEPT !.fn = "addPageName",
                            !.pageName = PageName(call.pathname, call.trailingSlash,
                                                  call.format)]
    /\ UNCHANGED <<build, runner, adapter, rest>>

\* getOutFolder and getOutFile as generatePath calls them (generate.ts:528-529)
CallGetOutFile ==
    /\ call.fn = "none"
    /\ call' = [call EXCEPT !.fn = "getOutFile",
                            !.outFolder = OutFolder(call.pathname, call.routeType, call.format),
                            !.outFile = OutFile(call.pathname, call.routeType, call.format)]
    /\ UNCHANGED <<build, runner, adapter, rest>>

NextCalls ==
    \/ CallShouldAppendForwardSlash
    \/ CallGetUrlForPath
    \/ CallAddPageName
    \/ CallGetOutFile

SpecCalls == InitCalls /\ [][NextCalls]_vars

\* --------------------------------------------------- the run-hook functions
\* timeoutMs of withTakingALongTimeMsg (integrations/index.ts:23)
TimeoutMs == 3000
\* the clock advances in steps of TickMs
TickMs == 1500

\* what an entry of config.integrations does when its hook is called: it has
\* no such hook; its promise is settled by a later task of the event loop; or
\* it keeps the thread busy until, in that same task, its promise settles
HookKinds == {"none", "loop", "busy"}

InitHooks ==
    /\ \E ks \in [1..3 -> HookKinds] :
        runner = [hook |-> "astro:build:generated", kinds |-> ks, idx |-> 1,
                  phase |-> "next", ticks |-> 0, armed |-> 0,
                  invoked |-> <<>>, settled |-> <<>>, msgs |-> <<>>]
    /\ call = NoCall
    /\ adapter = NoAdapter
    /\ RestIdle
    /\ manifest = <<IndexRoute, ParamRoute, SpreadRoute>>
    /\ pages = <<1, 2, 3>>
    /\ draftsEnabled = FALSE
    /\ trailingSlash = "ignore"
    /\ buildFormat = "directory"
    /\ scriptStages = {}
    /\ bundleMap = {}
    /\ output = "static"
    /\ prerender = [r \in RouteIds |-> TRUE]
    /\ assets = FALSE
    /\ StartState

Elapsed == runner.ticks * TickMs

\* the timer set by setTimeout has run out
TimerDue == runner.armed # 0 /\ Elapsed >= TimeoutMs

\* no task occupies the thread, so a due timer's callback can run
ThreadFree == ~(runner.phase = "pending" /\ runner.kinds[runner.idx] = "busy")

\* a loop that calls the next hook without awaiting the previous one
HookSettled_Always(phase) == TRUE

\* `await withTakingALongTimeMsg(...)` inside the for loop
\* (integrations/index.ts:324-332): the loop goes on once the call returned
HookSettled(phase) == phase = "next"

\* the loop reaches an entry without the hook (integrations/index.ts:325)
SkipIntegration ==
    /\ HookSettled(runner.phase)
    /\ runner.phase # "failed"
    /\ runner.idx <= Len(runner.kinds)
    /\ runner.kinds[runner.idx] = "none"
    /\ runner' = [runner EXCEPT !.idx = @ + 1]
    /\ UNCHANGED <<build, call, adapter, rest>>

\* the hook is called and withTakingALongTimeMsg sets its timer
\* (integrations/index.ts:326-330, 31-33)
InvokeHook ==
    /\ HookSettled(runner.phase)
    /\ runner.phase \in {"next", "pending"}
    /\ runner.idx + (IF runner.phase = "pending" THEN 1 ELSE 0) <= Len(runner.kinds)
    /\ LET i == runner.idx + (IF runner.phase = "pending" THEN 1 ELSE 0)
       IN /\ runner.kinds[i] # "none"
          /\ runner' = [runner EXCEPT !.idx = i, !.phase = "pending", !.ticks = 0,
                                      !.armed = i, !.invoked = Append(@, i)]
    /\ UNCHANGED <<build, call, adapter, rest>>

\* time passes while a hook is pending or a timer is left armed; a due timer
\* runs before the clock moves on unless the thread is busy
Tick ==
    /\ runner.phase = "pending" \/ (runner.phase = "failed" /\ runner.armed # 0)
    /\ runner.ticks < MaxTicks
    /\ ~(TimerDue /\ ThreadFree)
    /\ runner' = [runner EXCEPT !.ticks = @ + 1]
    /\ UNCHANGED <<build, call, adapter, rest>>

\* the timer callback logs the message (integrations/index.ts:31-33)
TimerFires ==
    /\ TimerDue
    /\ ThreadFree
    /\ runner' = [runner EXCEPT !.armed = 0, !.msgs = Append(@, runner.armed)]
    /\ UNCHANGED <<build, call, adapter, rest>>

\* the hook's promise resolves: clearTimeout, return (integrations/index.ts:34-36)
HookResolves ==
    /\ runner.phase = "pending"
    /\ ~(TimerDue /\ ThreadFree)
    /\ runner' = [runner EXCEPT !.phase = "next", !.idx = @ + 1, !.armed = 0,
                                !.settled = Append(@, [idx |-> runner.idx,
                                                       at |-> Elapsed])]
    /\ UNCHANGED <<build, call, adapter, rest>>

\* the hook's promise rejects: the await throws, the timer is not cleared and
\* the run-hook function rejects (integrations/index.ts:34)
HookRejects ==
    /\ runner.phase = "pending"
    /\ ~(TimerDue /\ ThreadFree)
    /\ runner' = [runner EXCEPT !.phase = "failed",
                                !.settled = Append(@, [idx |-> runner.idx,
                                                       at |-> Elapsed])]
    /\ UNCHANGED <<build, call, adapter, rest>>

\* the loop is over (integrations/index.ts:333)
RunnerReturns ==
    /\ runner.phase = "next"
    /\ runner.idx > Len(runner.kinds)
    /\ runner' = [runner EXCEPT !.phase = "done"]
    /\ UNCHANGED <<build, call, adapter, rest>>

NextHooks ==
    \/ SkipIntegration
    \/ InvokeHook
    \/ Tick
    \/ TimerFires
    \/ HookResolves
    \/ HookRejects
    \/ RunnerReturns

SpecHooks == InitHooks /\ [][NextHooks]_vars

\* ----------------------------------------------- vocabulary of the properties
AllPaths == {Empty, Root, PX, PXS}

IsDynamic(r) == ~Truthy(manifest[r].pathname)

\* position of a route's page in the processing order
Pos(r) == CHOOSE i \in 1..Len(pages) : pages[i] = r

Rendered(r, p) == \E i \in 1..Len(renderLog) : renderLog[i] = [route |-> r, path |-> p]

Written(r, p) ==
    \E i \in 1..Len(writeLog) : writeLog[i].route = r /\ writeLog[i].path = p

\* both dynamic routes have been resolved and their enumerations share p
Collide(r1, r2, p) ==
    /\ r1 < r2
    /\ IsDynamic(r1) /\ IsDynamic(r2)
    /\ r1 \in resolvedRoutes /\ r2 \in resolvedRoutes
    /\ p \in Range(candidates[r1]) \cap Range(candidates[r2])

FileOf(p) == OutFile(p, "page", buildFormat)

\* the pathnames a log records for route r, in the order of the log
PathsOf(log, r) ==
    LET F[i \in 0..Len(log)] ==
            IF i = 0 THEN <<>>
            ELSE IF log[i].route = r THEN Append(F[i - 1], log[i].path) ELSE F[i - 1]
    IN F[Len(log)]

\* a is b with some entries removed, the others in b's order
RECURSIVE IsSubSeq(_, _)
IsSubSeq(a, b) ==
    IF Len(a) = 0 THEN TRUE
    ELSE IF Len(b) = 0 THEN FALSE
    ELSE IF a[1] = b[1] THEN IsSubSeq(Tail(a), Tail(b))
    ELSE IsSubSeq(a, Tail(b))

\* --------------------------------------------------------------------- C1
\* C1 (as stated): whenever two dynamic routes R1 (earlier in the manifest)
\* and R2 both enumerate p, R2 is never rendered or written for p and p is
\* not among the paths getPathsForRoute returned for R2, in every page order.
C1_Original ==
    \A r1 \in RouteIds, r2 \in RouteIds, p \in AllPaths :
        Collide(r1, r2, p) =>
            /\ p \notin Range(returned[r2])
            /\ ~Rendered(r2, p)
            /\ ~Written(r2, p)

\* C1 (amended): if R1's page is processed before R2's, R2's candidate p is
\* dropped and R2 is never rendered or written for p; if R2's page is
\* processed first R2 may render and write p, and when R1 is the route
\* matchRoute selects for p, R1 keeps p too, so once R1 has written p the
\* file does not hold R2's render.
C1_CollisionLaw ==
    \A r1 \in RouteIds, r2 \in RouteIds, p \in AllPaths :
        Collide(r1, r2, p) =>
            /\ Pos(r1) < Pos(r2) =>
                 /\ p \notin Range(returned[r2])
                 /\ ~Rendered(r2, p)
                 /\ ~Written(r2, p)
            /\ (Pos(r2) < Pos(r1) /\ matchRoute(p, manifest) = r1) =>
                 /\ p \in Range(returned[r1])
                 /\ Written(r1, p) => files[FileOf(p)].route # r2

\* R2 was processed first and wrote p, then R1 enumerated p and overwrote it
C1_Witness ==
    \E r1 \in RouteIds, r2 \in RouteIds, p \in AllPaths :
        /\ Collide(r1, r2, p)
        /\ Pos(r2) < Pos(r1)
        /\ Written(r2, p) /\ Written(r1, p)
        /\ files[FileOf(p)].route = r1

\* --------------------------------------------------------------------- C2
\* the routes whose resolution produced the literal pathname p
Producers(p) == { r \in resolvedRoutes : p \in Range(candidates[r]) }

\* C2 (as stated): at the end of a successful run in which no page was
\* skipped and every render was written, every pathname produced by more
\* than one route has its output file holding the render of the route that
\* matchRoute selects for it.
C2_Original ==
    (pc = "done" /\ skipped = {} /\ Len(writeLog) = Len(renderLog)) =>
        \A p \in AllPaths :
            Cardinality(Producers(p)) >= 2 =>
                /\ FileOf(p) \in DOMAIN files
                /\ files[FileOf(p)].route = matchRoute(p, manifest)

\* --------------------------------------------------------------------- C3
Count(s, x) == Cardinality({ i \in 1..Len(s) : s[i] = x })

RenderCount(r, p) == Count(renderLog, [route |-> r, path |-> p])

WriteCount(r, p) ==
    Cardinality({ i \in 1..Len(writeLog) :
                    writeLog[i].route = r /\ writeLog[i].path = p })

\* generatePage has returned for the page of route r
Finished(r) == r \in resolvedRoutes /\ Pos(r) < pageIdx

\* C3 (as stated): a pathname that occurs more than once in one route's
\* enumeration is returned, rendered and written at most once for that page.
C3_Original ==
    \A r \in RouteIds, p \in AllPaths :
        (IsDynamic(r) /\ r \in resolvedRoutes /\ Count(candidates[r], p) > 1) =>
            /\ Count(returned[r], p) <= 1
            /\ RenderCount(r, p) <= 1
            /\ WriteCount(r, p) <= 1

\* C3 (amended): all occurrences of a pathname in one route's enumeration
\* get the same admission decision, so an admitted pathname is returned once
\* per occurrence, and once the page has been generated it has been rendered
\* once per occurrence (and written at most as often), not once.
C3_DuplicatesKept ==
    \A r \in RouteIds, p \in AllPaths :
        (IsDynamic(r) /\ r \in resolvedRoutes) =>
            /\ Count(returned[r], p) \in {0, Count(candidates[r], p)}
            /\ Finished(r) =>
                 /\ RenderCount(r, p) = Count(returned[r], p)
                 /\ WriteCount(r, p) <= RenderCount(r, p)

\* a page whose enumeration held p twice has been generated: p was rendered
\* and written twice
C3_Witness ==
    \E r \in RouteIds, p \in AllPaths :
        /\ IsDynamic(r) /\ Finished(r)
        /\ Count(candidates[r], p) = 2
        /\ RenderCount(r, p) = 2
        /\ WriteCount(r, p) = 2

C5_Original ==
    \A p \in builtPaths : ~(Len(p) > 0 /\ p[Len(p)] = "/")

\* --------------------------------------------------------------------- C6
Admitted(r, p) ==
    \/ removeTrailingForwardSlash(p) \notin builtBefore[r]
    \/ matchRoute(p, manifest) = r

\* C6: for a dynamic route, getPathsForRoute returns an enumerated pathname
\* exactly when its stripped form was absent from builtPaths at the call or
\* matchRoute selects the route being resolved.
C6_Admission ==
    \A r \in RouteIds, p \in AllPaths :
        (IsDynamic(r) /\ r \in resolvedRoutes) =>
            (p \in Range(returned[r]) <=>
                (p \in Range(candidates[r]) /\ Admitted(r, p)))

\* a pathname already in builtPaths was kept because the route wins it
C6_Witness ==
    \E r \in RouteIds, p \in AllPaths :
        /\ IsDynamic(r) /\ r \in resolvedRoutes
        /\ removeTrailingForwardSlash(p) \in builtBefore[r]
        /\ p \in Range(returned[r])

\* --------------------------------------------------------------------- C7
\* C7: for a route with a fixed pathname getPathsForRoute returns exactly
\* <<pathname>>, never calls the enumeration callback or touches the route
\* cache, and the pathname is in builtPaths from then on.
C7_FixedPath ==
    \A r \in RouteIds :
        (~IsDynamic(r) /\ r \in resolvedRoutes) =>
            /\ returned[r] = <<manifest[r].pathname>>
            /\ gspCalls[r] = 0
            /\ routeCache[r] = NoEntry
            /\ manifest[r].pathname \in builtPaths

\* a fixed route was resolved after another route had built its pathname
C7_Witness ==
    \E r \in RouteIds :
        /\ ~IsDynamic(r) /\ r \in resolvedRoutes
        /\ manifest[r].pathname \in builtBefore[r]
        /\ returned[r] = <<manifest[r].pathname>>

\* --------------------------------------------------------------------- C8
\* C8 (as stated): an empty generated pathname is never returned, rendered
\* or written.
C8_Original ==
    /\ \A r \in resolvedRoutes : Empty \notin Range(returned[r])
    /\ \A i \in 1..Len(renderLog) : renderLog[i].path # Empty
    /\ \A i \in 1..Len(writeLog) : writeLog[i].path # Empty

\* C8 (amended): an empty generated pathname is not dropped; it goes through
\* the admission rule like any other pathname, and when kept it is returned,
\* '' is added to builtPaths and it is written as the root page.
C8_EmptyKept ==
    /\ \A r \in RouteIds :
        (IsDynamic(r) /\ r \in resolvedRoutes /\ Empty \in Range(candidates[r])) =>
            /\ Empty \in Range(returned[r]) <=> Admitted(r, Empty)
            /\ Empty \in Range(returned[r]) => Empty \in builtPaths
    /\ \A i \in 1..Len(writeLog) :
        writeLog[i].path = Empty => writeLog[i].file = <<"index.html">>

\* an empty pathname was enumerated, rendered and written
C8_Witness ==
    \E r \in RouteIds :
        /\ Empty \in Range(candidates[r])
        /\ Rendered(r, Empty)
        /\ Written(r, Empty)

\* --------------------------------------------------------------------- C9
NoTraceOf(r) ==
    /\ r \notin resolvedRoutes
    /\ gspCalls[r] = 0
    /\ \A i \in 1..Len(renderLog) : renderLog[i].route # r
    /\ \A i \in 1..Len(writeLog) : writeLog[i].route # r

ImportStep ==
    /\ pc = "pages"
    /\ pageIdx <= Len(pages)
    /\ IF ~draftsEnabled /\ curMod'.frontmatter /\ curMod'.draft = "true"
       THEN /\ skipped' = skipped \cup {cur}
            /\ pc' = "pages"
            /\ pageIdx' = pageIdx + 1
            /\ error' = error
            /\ UNCHANGED <<renderLog, writeLog, files, folders>>
       ELSE /\ pc' = "resolve"
            /\ skipped' = skipped

\* C9: a page whose module has frontmatter.draft === true while drafts are
\* disabled is skipped with no render, no write and no path resolution, and
\* generation goes on with the next page; every other page is generated.
C9_DraftSkip ==
    /\ [](\A r \in skipped : ~draftsEnabled /\ NoTraceOf(r))
    /\ [](pc = "done" => \A r \in RouteIds : r \in skipped \/ Finished(r))
    /\ [][(pc = "pages" /\ pageIdx <= Len(pages)) => ImportStep]_vars

\* a draft page was skipped and a later page was written
C9_Witness ==
    \E r \in skipped, r2 \in RouteIds :
        /\ Pos(r) < Pos(r2)
        /\ \E i \in 1..Len(writeLog) : writeLog[i].route = r2

\* -------------------------------------------------------------------- C10
\* C10: an error thrown by path enumeration or by any stage of generatePath
\* rejects generatePages with that error, and after it nothing more is
\* rendered, written, resolved or reported.
C10_ErrorsHalt ==
    /\ [](thrown # "none" => (pc = "failed" /\ error = thrown))
    /\ [](pc = "done" => error = "none")
    /\ [][error # "none" =>
            UNCHANGED <<renderLog, writeLog, files, folders, pageNames,
                        builtPaths, routeCache, hookRuns, error, pc>>]_vars

\* generation stopped on an error with paths and pages still to generate
C10_Witness ==
    /\ pc = "failed"
    /\ error = "RenderError"
    /\ pathIdx < Len(paths)
    /\ pageIdx < Len(pages)
    /\ Len(writeLog) > 0

\* -------------------------------------------------------------------- C11
\* C11: when callGetStaticPaths fails for a dynamic route, generatePages
\* rejects with that very error; the failing step changes neither builtPaths
\* nor the route cache nor anything on disk, and the page whose enumeration
\* failed has no render, no write and no cache entry.
C11_CallbackFailure ==
    /\ [](error = "StaticPathsError" =>
            /\ pc = "failed"
            /\ thrown = error
            /\ IsDynamic(cur)
            /\ cur \notin resolvedRoutes
            /\ routeCache[cur] = NoEntry
            /\ \A p \in AllPaths : ~Rendered(cur, p) /\ ~Written(cur, p))
    /\ [][(error = "none" /\ error' = "StaticPathsError") =>
            /\ builtPaths' = builtPaths
            /\ routeCache' = routeCache
            /\ UNCHANGED <<disk, genHist, pageNames>>]_vars

\* the callback of a later page fails after earlier pages filled builtPaths,
\* the route cache and the disk
C11_Witness ==
    /\ error = "StaticPathsError"
    /\ builtPaths # {}
    /\ \E r \in RouteIds : routeCache[r].set
    /\ Len(writeLog) > 0

\* -------------------------------------------------------------------- C12
\* C12: when generatePath raises the redirect error, on the page branch or on
\* the endpoint Response branch, the response had been rendered and the step
\* creates no folder, writes no file and sets no distURL: the check precedes
\* mkdir and writeFile, and the error rejects the build.
C12_RedirectBeforeWrite ==
    /\ [](thrown = "RedirectNotAllowedError" =>
            (pc = "failed" /\ error = "RedirectNotAllowedError"))
    /\ [][(error = "none" /\ error' = "RedirectNotAllowedError") =>
            /\ renderLog' = Append(renderLog, [route |-> cur, path |-> paths[pathIdx]])
            /\ folders' = folders
            /\ files' = files
            /\ writeLog' = writeLog
            /\ distURL' = distURL]_vars

\* an endpoint's Response is a disallowed redirect for a path whose output
\* folder does not exist yet, after a page was written
C12_Witness ==
    /\ error = "RedirectNotAllowedError"
    /\ route.type = "endpoint"
    /\ OutFolder(paths[pathIdx], route.type, buildFormat) \notin folders
    /\ Len(writeLog) > 0

\* -------------------------------------------------------------------- C13
\* C13: a generatePath call whose response (page response or endpoint
\* Response) has no body creates no directory, writes no file, leaves the
\* route's distURL as it was, raises no error, and the loop moves on to the
\* next path.
C13_NoBodyNoOp ==
    [][(pc = "paths" /\ renderLog' # renderLog /\ response' = "nobody") =>
            /\ folders' = folders
            /\ files' = files
            /\ writeLog' = writeLog
            /\ distURL' = distURL
            /\ error' = "none" /\ thrown' = "none"
            /\ pc' = "paths"
            /\ pathIdx' = pathIdx + 1]_vars

\* an endpoint's first Response had no body: nothing was recorded for the
\* route and its second path is next
C13_Witness ==
    /\ pc = "paths"
    /\ response = "nobody"
    /\ route.type = "endpoint"
    /\ distURL[cur] = NoPath
    /\ error = "none"
    /\ pathIdx = 2 /\ Len(paths) = 2

\* -------------------------------------------------------------------- C14
\* C14 (as stated): on the page branch every render error is re-thrown, one
\* that carries no component identifier leaves generatePath tagged with the
\* page's component, and one that carries an identifier keeps it.
C14_Original ==
    (error = "RenderError" /\ route.type = "page") =>
        /\ thrown = "RenderError"
        /\ raised.id = "none" => errorId = route.component
        /\ raised.id # "none" => errorId = raised.id

\* C14 (amended): on the page branch every render error is re-thrown and
\* rejects the build; it is tagged with the page's component exactly when it
\* is an object other than an AstroError and carries no identifier; an
\* AstroError or a thrown primitive leaves untagged, and an identifier
\* already present is kept.
C14_TagOnRethrow ==
    /\ thrown = "RenderError" => (pc = "failed" /\ error = "RenderError")
    /\ (error = "RenderError" /\ route.type = "page") =>
        /\ raised \in RenderErrors
        /\ (raised.kind = "object" /\ raised.id = "none") => errorId = route.component
        /\ (raised.kind # "object" \/ raised.id # "none") => errorId = raised.id

\* a page render threw an AstroError without identifier: it left untagged
C14_Witness ==
    /\ error = "RenderError"
    /\ route.type = "page"
    /\ raised = [kind |-> "astro", id |-> "none"]
    /\ errorId = "none"

\* -------------------------------------------------------------------- C15
\* C15 (as stated): an endpoint render error that the page branch would tag
\* (an object without identifier) leaves generatePath tagged with the
\* component of the endpoint's route.
C15_Original ==
    (error = "RenderError" /\ route.type = "endpoint"
        /\ raised = [kind |-> "object", id |-> "none"]) =>
            errorId = route.component

\* C15 (amended): an error thrown by callEndpoint leaves generatePath as it
\* was thrown, with the identifier it carried or none, and rejects the
\* build: only the page branch tags.
C15_EndpointUntagged ==
    (error = "RenderError" /\ route.type = "endpoint") =>
        /\ pc = "failed" /\ thrown = "RenderError"
        /\ raised \in RenderErrors
        /\ errorId = raised.id

\* an endpoint threw an object without identifier and the build failed with
\* the error still untagged
C15_Witness ==
    /\ error = "RenderError"
    /\ route.type = "endpoint"
    /\ raised = [kind |-> "object", id |-> "none"]
    /\ errorId = "none"

\* -------------------------------------------------------------------- C16
\* C16: at most one generatePath call is in flight at any moment; while one
\* is in flight no page is imported, no route resolved and no further call
\* started, and builtPaths and the route cache change only when none is in
\* flight, pageNames only by the settling of the single call in flight.
C16_NoInterleaving ==
    /\ [](inflight <= 1)
    /\ [](inflight = 1 => (pc = "paths" /\ pathIdx <= Len(paths)))
    /\ [][inflight' > inflight => (inflight = 0 /\ UNCHANGED <<store, pageNames, disk>>)]_vars
    /\ [][(builtPaths' # builtPaths \/ routeCache' # routeCache) =>
            (inflight = 0 /\ inflight' = 0)]_vars
    /\ [][(pageNames' # pageNames \/ renderLog' # renderLog \/ writeLog' # writeLog) =>
            (inflight = 1 /\ inflight' = 0)]_vars

\* the second path of a page is in flight after the first one was written
C16_Witness ==
    /\ inflight = 1
    /\ pathIdx = 2
    /\ Len(writeLog) > 0
    /\ writeLog[Len(writeLog)].route = cur

\* -------------------------------------------------------------------- C17
\* C17: the list getPathsForRoute returns for a dynamic route is its mapped
\* enumeration with the rejected entries removed and the kept ones in the
\* enumeration's order; the page's paths are rendered in exactly that order
\* and written in that order too.
C17_EnumerationOrder ==
    /\ \A r \in resolvedRoutes :
        IsDynamic(r) =>
            /\ IsSubSeq(returned[r], candidates[r])
            /\ returned[r] = SelectSeq(candidates[r], LAMBDA p : p \in Range(returned[r]))
    /\ \A r \in RouteIds :
        /\ Finished(r) => PathsOf(renderLog, r) = returned[r]
        /\ IsSubSeq(PathsOf(writeLog, r), PathsOf(renderLog, r))
    /\ pc = "paths" => PathsOf(renderLog, cur) = SubSeq(paths, 1, pathIdx - 1)

\* a dynamic page was generated for two different paths, written in the order
\* its callback enumerated them
C17_Witness ==
    \E r \in RouteIds :
        /\ IsDynamic(r)
        /\ Finished(r)
        /\ Len(candidates[r]) = 2
        /\ candidates[r][1] # candidates[r][2]
        /\ PathsOf(writeLog, r) = candidates[r]

\* -------------------------------------------------------------------- C18
\* C18: within one generatePages run a fixed-pathname route never gets a
\* route cache entry; a dynamic route gets its entry on its one resolution,
\* holding the enumeration of that resolution; and an entry, once set, is
\* never removed or replaced.
C18_CacheWrittenOnce ==
    /\ [](\A r \in RouteIds :
            /\ ~IsDynamic(r) => routeCache[r] = NoEntry
            /\ routeCache[r].set <=> (IsDynamic(r) /\ r \in resolvedRoutes)
            /\ routeCache[r].set =>
                (gspCalls[r] = 1 /\ routeCache[r].staticPaths = candidates[r]))
    /\ [][\A r \in RouteIds : routeCache[r].set => routeCache'[r] = routeCache[r]]_vars

\* the build completed with the entries of two dynamic routes and none for
\* the fixed-pathname route
C18_Witness ==
    /\ pc = "done"
    /\ \E r1 \in RouteIds, r2 \in RouteIds, r3 \in RouteIds :
        /\ r1 # r2
        /\ routeCache[r1].set /\ routeCache[r2].set
        /\ routeCache[r1].staticPaths # <<>>
        /\ ~IsDynamic(r3) /\ r3 \in resolvedRoutes /\ routeCache[r3] = NoEntry

\* -------------------------------------------------------------------- C19
\* C19: the step in which getPathsForRoute returns for a dynamic route
\* leaves builtPaths equal to what it was plus the trailing-slash-stripped
\* forms of the returned paths: every returned path is registered, a rejected
\* candidate registers nothing, and nothing is removed.
C19_BuiltPathsAfterReturn ==
    [][(pc = "resolve" /\ pc' = "paths" /\ IsDynamic(cur)) =>
            /\ builtPaths \subseteq builtPaths'
            /\ \A p \in Range(paths') : removeTrailingForwardSlash(p) \in builtPaths'
            /\ (builtPaths' \ builtPaths) \subseteq
                    { removeTrailingForwardSlash(p) : p \in Range(paths') }]_vars

\* getPathsForRoute has just returned for a dynamic route: it rejected a
\* candidate, kept a path that ends in a slash, and builtPaths was not empty
\* before the call
C19_Witness ==
    /\ pc = "paths" /\ pathIdx = 1
    /\ IsDynamic(cur)
    /\ Len(returned[cur]) < Len(candidates[cur])
    /\ \E p \in Range(returned[cur]) : removeTrailingForwardSlash(p) # p
    /\ builtBefore[cur] # {}
    /\ builtBefore[cur] \subseteq builtPaths

\* -------------------------------------------------------------------- C20
\* the pathnames route r is asked to generate: its fixed pathname, or the
\* mapped enumeration of its callback
Targets(r) == IF IsDynamic(r) THEN Range(candidates[r]) ELSE {manifest[r].pathname}

\* a completed build of one fixed-pathname page and one dynamic page that
\* enumerates distinct bindings, no two target pathnames sharing an output
\* file, no page skipped and every response with a body
CleanBuild ==
    /\ pc = "done"
    /\ skipped = {}
    /\ Len(writeLog) = Len(renderLog)
    /\ Cardinality({ r \in RouteIds : ~IsDynamic(r) }) = 1
    /\ Cardinality({ r \in RouteIds : IsDynamic(r) /\ candidates[r] # <<>> }) = 1
    /\ \A r \in RouteIds : Cardinality(Targets(r)) = Len(candidates[r])
    /\ \A r1 \in RouteIds, r2 \in RouteIds :
        \A p1 \in Targets(r1), p2 \in Targets(r2) :
            FileOf(p1) = FileOf(p2) => (r1 = r2 /\ p1 = p2)

Imported(r) == Pos(r) < pageIdx \/ (Pos(r) = pageIdx /\ pc # "pages")

C22_AppendTable ==
    call.fn = "shouldAppendForwardSlash" =>
        /\ call.appends \in BOOLEAN
        /\ call.trailingSlash = "always" => call.appends
        /\ call.trailingSlash = "never" => ~call.appends
        /\ (call.trailingSlash = "ignore" /\ call.format = "directory") => call.appends
        /\ (call.trailingSlash = "ignore" /\ call.format = "file") => ~call.appends

\* the helper was applied to 'ignore' with the directory format
C22_Witness ==
    /\ call.fn = "shouldAppendForwardSlash"
    /\ call.trailingSlash = "ignore"
    /\ call.format = "directory"
    /\ call.appends

\* -------------------------------------------------------------------- C23
\* C23: getUrlForPath maps '/' and '' to the base alone, whatever the format
\* and the route type; an endpoint path to the base followed by the path
\* without its leading slash, nothing appended; a page path to the base
\* followed by the path without leading and trailing slash and then '/' in
\* directory format, '.html' in file format.
C23_UrlForPath ==
    call.fn = "getUrlForPath" =>
        LET p == call.pathname
            inner == removeTrailingForwardSlash(removeLeadingForwardSlash(p))
        IN /\ p \in {Root, Empty} => call.url = call.base
           /\ (p \notin {Root, Empty} /\ call.routeType = "endpoint") =>
                call.url = call.base \o removeLeadingForwardSlash(p)
           /\ (p \notin {Root, Empty} /\ call.routeType = "page"
                    /\ call.format = "directory") =>
                call.url = call.base \o inner \o <<"/">>
           /\ (p \notin {Root, Empty} /\ call.routeType = "page" /\ call.format = "file") =>
                call.url = call.base \o inner \o <<".html">>

\* an endpoint path that ends in a slash keeps it and gets no ending, under
\* a base other than '/'
C23_Witness ==
    /\ call.fn = "getUrlForPath"
    /\ call.routeType = "endpoint"
    /\ call.pathname = PBlogS
    /\ call.base = <<"/", "d", "/">>
    /\ call.url = <<"/", "d", "/", "b", "l", "o", "g", "/">>

\* -------------------------------------------------------------------- C24
\* the helpers were applied to the page pathname '/blog'
BlogCall(fn) ==
    /\ call.fn = fn
    /\ call.pathname = PBlog
    /\ call.routeType = "page"

PathStep ==
    /\ pc = "paths"
    /\ pathIdx <= Len(paths)
    /\ (pathIdx' = pathIdx + 1 \/ pc' = "failed")

EndsInSlash(n) == Len(n) > 0 /\ n[Len(n)] = "/"

\* C25 (as stated): every recorded page name has no leading slash, ends in
\* exactly one '/' when shouldAppendForwardSlash is true and in no '/' when
\* it is false.
C25_Original ==
    \A i \in 1..Len(pageNames) :
        LET n == pageNames[i]
        IN /\ Len(n) > 0 => n[1] # "/"
           /\ shouldAppendForwardSlash(trailingSlash, buildFormat) =>
                (EndsInSlash(n) /\ ~EndsInSlash(SubSeq(n, 1, Len(n) - 1)))
           /\ ~shouldAppendForwardSlash(trailingSlash, buildFormat) => ~EndsInSlash(n)

\* C25 (amended): every generatePath call for a page-type path appends
\* exactly one name to pageNames, in generation order, and a call for an
\* endpoint path appends nothing; no other step touches pageNames.  The name
\* is the pathname with its trailing slash, if any, replaced by one '/' and
\* then its leading slash removed when a slash is appended (so '/' and ''
\* give the empty name), and the pathname with only its leading slash
\* removed, a trailing slash kept, when none is appended.
C25_PageNames ==
    /\ [][PathStep =>
            LET p == paths[pathIdx]
                appends == \/ trailingSlash = "always"
                           \/ (trailingSlash = "ignore" /\ buildFormat = "directory")
                name == IF appends
                        THEN removeLeadingForwardSlash(
                                Append(removeTrailingForwardSlash(p), "/"))
                        ELSE removeLeadingForwardSlash(p)
            IN pageNames' = IF route.type = "page" THEN Append(pageNames, name)
                            ELSE pageNames]_vars
    /\ [][~PathStep => pageNames' = pageNames]_vars

\* with a slash appended the root page was recorded under the empty name,
\* and an endpoint path was generated without a name
C25_Witness ==
    /\ shouldAppendForwardSlash(trailingSlash, buildFormat)
    /\ \E i \in 1..Len(pageNames) : pageNames[i] = <<>>
    /\ \E j \in 1..Len(renderLog) : manifest[renderLog[j].route].type = "endpoint"
    /\ Len(pageNames) < Len(renderLog)

\* -------------------------------------------------------------------- C26
\* how many messages name integration i
Messages(i) == Count(runner.msgs, i)

\* the entries of the integrations list that have the hook, in list order
Hooked == SelectSeq([i \in 1..Len(runner.kinds) |-> i],
                    LAMBDA i : runner.kinds[i] # "none")

\* the callbacks are invoked one at a time in list order, each only after
\* the previous one has settled, and the runner returns only when every
\* callback has settled
OneAtATime ==
    /\ [](/\ IsSubSeq(runner.invoked, Hooked)
          /\ \A k \in 1..Len(runner.invoked) : runner.invoked[k] = Hooked[k]
          /\ Len(runner.invoked) - Len(runner.settled) \in {0, 1}
          /\ (runner.phase = "pending") <=> (Len(runner.invoked) = Len(runner.settled) + 1)
          /\ \A k \in 1..Len(runner.settled) : runner.settled[k].idx = runner.invoked[k]
          /\ runner.phase = "done" => Len(runner.settled) = Len(Hooked))
    /\ [][runner'.invoked # runner.invoked =>
            (runner.phase = "next" /\ Len(runner.invoked) = Len(runner.settled))]_vars

\* C26 (as stated): the callbacks run one at a time in list order, and every
\* callback still pending after the threshold has exactly one message.
C26_Original ==
    /\ \A k \in 1..Len(runner.settled) :
        runner.settled[k].at > TimeoutMs => Messages(runner.settled[k].idx) = 1
    /\ (runner.phase = "pending" /\ Elapsed > TimeoutMs) => Messages(runner.idx) = 1

\* C26 (amended): the callbacks run one at a time in list order and none is
\* cancelled or abandoned; a message is logged only by a timer that has run
\* out, at most once per callback; a callback whose promise is settled by a
\* later task of the event loop and is still pending after the threshold has
\* exactly one message, while a callback that keeps the thread busy until
\* its promise resolves has none, however long it takes.
C26_HookRunner ==
    /\ OneAtATime
    /\ [](\A i \in 1..Len(runner.kinds) : Messages(i) <= 1)
    /\ [][runner'.msgs # runner.msgs =>
            (TimerDue /\ runner'.msgs = Append(runner.msgs, runner.armed))]_vars
    /\ [](\A k \in 1..Len(runner.settled) :
            LET e == runner.settled[k]
            IN /\ (runner.kinds[e.idx] = "loop" /\ e.at > TimeoutMs) => Messages(e.idx) = 1
               /\ (runner.kinds[e.idx] = "busy" /\ runner.phase # "failed") =>
                    Messages(e.idx) = 0)
    /\ []((runner.phase = "pending" /\ runner.kinds[runner.idx] = "loop"
                /\ Elapsed > TimeoutMs) => Messages(runner.idx) = 1)

\* the runner returned after a callback that kept the thread busy past the
\* threshold, with no message for it, and a later callback with its message
C26_Witness ==
    /\ runner.phase = "done"
    /\ \E k \in 1..Len(runner.settled), l \in 1..Len(runner.settled) :
        /\ k < l
        /\ runner.kinds[runner.settled[k].idx] = "busy"
        /\ runner.settled[k].at > TimeoutMs
        /\ Messages(runner.settled[k].idx) = 0
        /\ runner.settled[l].at > TimeoutMs
        /\ Messages(runner.settled[l].idx) = 1

\* -------------------------------------------------------------------- C27
\* C27: generatePath throws the missing-bundle error exactly when a 'page'
\* script is configured and the bundle map has no entry for the page-script
\* id, and then before any render or write for that path; env.resolve gives
\* the asset link of a mapped specifier, the empty string for the unmapped
\* before-hydration script id, and throws for any other unmapped specifier.
C27_MissingBundleEntry ==
    /\ [](thrown = "MissingBundleEntryError" =>
            /\ "page" \in scriptStages
            /\ PAGE_SCRIPT_ID \notin bundleMap
            /\ pc = "failed" /\ error = "MissingBundleEntryError")
    /\ [][PathStep =>
            IF "page" \in scriptStages /\ PAGE_SCRIPT_ID \notin bundleMap
            THEN /\ thrown' = "MissingBundleEntryError"
                 /\ UNCHANGED <<renderLog, writeLog, files, folders, distURL, resolution>>
            ELSE /\ thrown' # "MissingBundleEntryError"
                 /\ renderLog' # renderLog]_vars
    /\ [](resolution.specifier # "none" =>
            /\ resolution.specifier \in bundleMap => resolution.result = "link"
            /\ (resolution.specifier \notin bundleMap
                    /\ resolution.specifier = BEFORE_HYDRATION_SCRIPT_ID) =>
                resolution.result = "empty"
            /\ (resolution.specifier \notin bundleMap
                    /\ resolution.specifier # BEFORE_HYDRATION_SCRIPT_ID) =>
                resolution.result = "throws")

\* the first path of a build with a page script and no bundle entry for it
\* failed before its render
C27_Witness ==
    /\ error = "MissingBundleEntryError"
    /\ renderLog = <<>>
    /\ files = <<>>
    /\ folders = {}
    /\ BEFORE_HYDRATION_SCRIPT_ID \in bundleMap

\* -------------------------------------------------------------------- C28
\* route r is rendered on demand: server or hybrid output, prerender off
OnDemand(r) == output \in {"server", "hybrid"} /\ ~prerender[r]

\* no trace of a generatePage call for route r
Untouched(r) ==
    /\ r \notin skipped
    /\ r \notin resolvedRoutes
    /\ gspCalls[r] = 0
    /\ styles[r] = PageStyles(r)
    /\ distURL[r] = NoPath
    /\ \A i \in 1..Len(renderLog) : renderLog[i].route # r
    /\ \A i \in 1..Len(writeLog) : writeLog[i].route # r

AtPage == pc = "pages" /\ pageIdx <= Len(pages)

\* C28: in server or hybrid output the page of an on-demand route is passed
\* over without being imported, and no path of it is resolved, rendered or
\* written; a page that is prerendered, and in static output every page, is
\* imported when its turn comes, so that a static run that completes has
\* generated every page of the entry-point map (a draft being skipped by
\* generatePage itself).
C28_OnlyPrerendered ==
    /\ [](\A r \in RouteIds : OnDemand(r) => Untouched(r))
    /\ [][(AtPage /\ OnDemand(cur)) =>
            /\ curMod' = curMod
            /\ pc' \in {"pages", "returned"}]_vars
    /\ [][(AtPage /\ ~OnDemand(cur)) =>
            /\ pc' = "resolve" \/ cur \in skipped'
            /\ curMod' \in ModuleKinds(route.markdown)]_vars
    /\ [](output = "static" /\ pc = "done" =>
            \A r \in RouteIds : r \in skipped \/ r \in resolvedRoutes)

\* a hybrid run completed with on-demand and prerendered routes, having
\* written a file for a prerendered one
C28_Witness ==
    /\ output = "hybrid"
    /\ pc = "done"
    /\ \E r \in RouteIds : ~prerender[r]
    /\ \E r \in RouteIds : prerender[r] /\ r \in resolvedRoutes
    /\ writeLog # <<>>

\* -------------------------------------------------------------------- C29
\* C29: runHookBuildGenerated is called at most once, and only when every
\* page has been passed and, with assets enabled, every static image has
\* been generated; a run that failed, or that returned at once because ssr
\* output has no prerendered page, has called no hook, and the early return
\* has produced no output.
C29_HooksLast ==
    /\ [](hookRuns > 0 =>
            /\ hookRuns = 1
            /\ pc = "done"
            /\ error = "none"
            /\ pageIdx > Len(pages)
            /\ assets => imagesDone = ImageCount)
    /\ [](pc \in {"failed", "returned"} => hookRuns = 0)
    /\ []((\A r \in RouteIds : OnDemand(r)) =>
            /\ pc \in {"pages", "returned"}
            /\ pageIdx = 1
            /\ hookRuns = 0
            /\ imagesDone = 0
            /\ files = <<>> /\ folders = {} /\ pageNames = <<>>
            /\ renderLog = <<>>)
    /\ [][hookRuns' # hookRuns =>
            /\ pc = "pages" /\ pc' = "done"
            /\ pageIdx > Len(pages)
            /\ assets => imagesDone = ImageCount]_vars

\* the hooks ran after the pages were written and both images generated
C29_Witness ==
    /\ hookRuns = 1
    /\ assets
    /\ imagesDone = ImageCount
    /\ writeLog # <<>>

\* -------------------------------------------------------------------- C30
\* C30: a setAdapter call throws exactly when an adapter of another name is
\* set, and then leaves settings.adapter as it was; every other call stores
\* the adapter passed. After any sequence of calls settings.adapter has the
\* name passed to the first call.
C30_OneAdapter ==
    /\ [](adapter.calls # <<>> => adapter.name = adapter.calls[1].name)
    /\ [](\A i \in 1..Len(adapter.calls) :
            adapter.calls[i].threw <=> adapter.calls[i].name # adapter.calls[1].name)
    /\ [][adapter' # adapter =>
            LET c == adapter'.calls[Len(adapter'.calls)]
            IN  /\ Len(adapter'.calls) = Len(adapter.calls) + 1
                /\ c.threw <=> (adapter.name # "none" /\ adapter.name # c.name)
                /\ c.threw => (adapter'.name = adapter.name /\ adapter'.obj = adapter.obj)
                /\ ~c.threw => (adapter'.name = c.name
                                   /\ adapter'.obj = Len(adapter'.calls))]_vars

\* a second adapter was refused, after which the first one was set again
C30_Witness ==
    /\ Len(adapter.calls) = 3
    /\ adapter.calls[1].name = "node"
    /\ adapter.calls[2] = [name |-> "vercel", threw |-> TRUE]
    /\ adapter.calls[3] = [name |-> "node", threw |-> FALSE]
    /\ adapter.name = "node"
    /\ adapter.obj = 3

\* -------------------------------------------------------------------- C31
\* C31: maybeRenderHead yields head content only when hasRenderedHead is
\* false, and doing so sets it; hasRenderedHead never goes back to false, so
\* maybeRenderHead yields the head at most once for a result and a call made
\* after any head render yields nothing and renders nothing.
C31_HeadAtMostOnce ==
    /\ [](result.heads <= 1)
    /\ [](result.renders > 0 => result.hasRenderedHead)
    /\ [][result.hasRenderedHead => result'.hasRenderedHead]_vars
    /\ [][result'.heads # result.heads =>
            /\ ~result.hasRenderedHead
            /\ result'.hasRenderedHead
            /\ result'.heads = result.heads + 1]_vars
    /\ [][result'.noops # result.noops =>
            /\ result.hasRenderedHead
            /\ result'.emitted = result.emitted
            /\ result'.styles = result.styles
            /\ result'.renders = result.renders]_vars

\* maybeRenderHead was a no-op after a <head> had rendered the head, with a
\* style waiting in result.styles
C31_Witness ==
    /\ result.noops = 1
    /\ result.heads = 0
    /\ result.renders = 1
    /\ result.styles # <<>>

\* -------------------------------------------------------------------- C32
\* two style elements with the same props and children
EqualStyles(a, b) == SameProps(a.props, b.props) /\ a.children = b.children

\* the ids of the elements a head render found in result.styles
Shown == UNION { Range(result.shown[r]) : r \in 1..Len(result.shown) }

\* emitted elements equal to element id, over all head renders
EmittedEqual(id) ==
    { k \in 1..Len(result.emitted) :
        EqualStyles(result.objs[result.emitted[k].id], result.objs[id]) }

\* C32 (as stated): an element that was in result.styles at a head render
\* is emitted exactly once in total, counting equal elements as one.
C32_Original ==
    \A id \in Shown : Cardinality(EmittedEqual(id)) = 1

\* emitted elements of render r that uniqueElements takes for element id
EmittedFor(r, id) ==
    { k \in 1..Len(result.emitted) :
        /\ result.emitted[k].render = r
        /\ result.objs[result.emitted[k].id].props = result.objs[id].props
        /\ result.objs[result.emitted[k].id].children = result.objs[id].children }

\* C32 (amended): a head render emits, for every element it finds in
\* result.styles, exactly one element with the same serialised props and
\* the same children, namely the first such element of the set, and leaves
\* result.styles empty; every element a render emits was in result.styles
\* when it started.
C32_OncePerRender ==
    /\ [](\A r \in 1..Len(result.shown) :
            \A i \in 1..Len(result.shown[r]) :
                LET id == result.shown[r][i]
                    first == CHOOSE j \in 1..i :
                        /\ result.objs[result.shown[r][j]].props = result.objs[id].props
                        /\ result.objs[result.shown[r][j]].children = result.objs[id].children
                        /\ \A h \in 1..(j - 1) :
                            \/ result.objs[result.shown[r][h]].props # result.objs[id].props
                            \/ result.objs[result.shown[r][h]].children # result.objs[id].children
                IN  /\ Cardinality(EmittedFor(r, id)) = 1
                    /\ \A k \in EmittedFor(r, id) :
                            result.emitted[k].id = result.shown[r][first])
    /\ [](\A k \in 1..Len(result.emitted) :
            /\ result.emitted[k].render \in 1..Len(result.shown)
            /\ result.emitted[k].id \in Range(result.shown[result.emitted[k].render]))
    /\ [][result'.renders # result.renders =>
            /\ result'.styles = <<>>
            /\ result'.shown = Append(result.shown, result.styles)]_vars

\* a head render found two elements with the same serialised props and
\* children and emitted the first only
C32_Witness ==
    /\ result.renders = 1
    /\ Len(result.shown[1]) = 2
    /\ result.objs[1] = result.objs[2]
    /\ result.emitted = <<[render |-> 1, id |-> 1]>>

\* -------------------------------------------------------------------- C33
Compared == call.fn = "cssOrder"

Reduced == call.fn = "mergeInlineCss"

\* a list of sheets as one sequence of tokens: the content of an inline
\* sheet, piece by piece, and a mark for each external sheet
RECURSIVE Tokens(_)
Tokens(list) ==
    IF list = <<>> THEN <<>>
    ELSE LET sheet == Head(list)
         IN  (IF IsInline(sheet) THEN [i \in 1..Len(sheet.content) |->
                                            [piece |-> sheet.content[i]]]
              ELSE <<[src |-> sheet.src]>>) \o Tokens(Tail(list))

\* positions at which a maximal run of inline sheets starts
RunStarts(list) ==
    { i \in 1..Len(list) :
        IsInline(list[i]) /\ (i = 1 \/ ~IsInline(list[i - 1])) }

\* the run of inline sheets that starts at position i
RunEnd(list, i) ==
    CHOOSE j \in i..Len(list) :
        /\ \A k \in i..j : IsInline(list[k])
        /\ j = Len(list) \/ ~IsInline(list[j + 1])

RECURSIVE Concat(_, _, _)
Concat(list, i, j) ==
    IF i > j THEN <<>> ELSE list[i].content \o Concat(list, i + 1, j)

\* the position in the output of the input's sheet i, when i is an external
\* sheet or starts a run: externals and runs before it, plus one
OutPos(list, i) ==
    Cardinality({ k \in 1..i : ~IsInline(list[k]) \/ k \in RunStarts(list) })

\* C39: the reduction has no two adjacent inline sheets; every external
\* sheet of the input is in the output, in the same order and at its place
\* among the runs; and each maximal run of inline sheets has become one
\* inline sheet whose content is the contents of the run, in order.
C39_MergedRuns ==
    Reduced =>
        LET in == call.list
            out == call.merged
        IN  /\ \A i \in 1..(Len(out) - 1) : ~(IsInline(out[i]) /\ IsInline(out[i + 1]))
            /\ Len(out) = Cardinality({ k \in 1..Len(in) :
                                ~IsInline(in[k]) \/ k \in RunStarts(in) })
            /\ \A i \in 1..Len(in) :
                ~IsInline(in[i]) => out[OutPos(in, i)] = in[i]
            /\ \A i \in RunStarts(in) :
                out[OutPos(in, i)] =
                    [type |-> "inline", content |-> Concat(in, i, RunEnd(in, i))]
            /\ Tokens(out) = Tokens(in)

\* a run of two inline sheets after an external sheet became one sheet
C39_Witness ==
    /\ Reduced
    /\ call.list = << [type |-> "external", src |-> "x"],
                      [type |-> "inline", content |-> <<"a">>],
                      [type |-> "inline", content |-> <<"b">>] >>
    /\ call.merged = << [type |-> "external", src |-> "x"],
                        [type |-> "inline", content |-> <<"a", "b">>] >>

\* -------------------------------------------------------------------- C40
Sign(n) == IF n < 0 THEN -1 ELSE IF n > 0 THEN 1 ELSE 0

\* C40 (as stated): cssOrder(a, b) and cssOrder(b, a) have opposite signs,
\* and cssOrder(a, a) is 0.
C40_Original ==
    Compared =>
        /\ Sign(call.cmp) = -Sign(call.cmpRev)
        /\ call.cmpSelf = 0

\* -------------------------------------------------------------------- C34
\* C34: a _routes.json the Cloudflare adapter writes has at least one
\* include pattern, whatever the routes and static paths: the patterns of
\* the function routes, or '/' when there is none, or '/*' when excluding
\* the static paths is shorter; and it is written exactly when none was
\* present.
C34_IncludeNotEmpty ==
    /\ routes.written => Len(routes.include) >= 1
    /\ routes.written =>
        \/ routes.include = << <<"/", "*">> >>
        \/ (routes.include = << <<"/">> >> /\ routes.exclude = << <<"/">> >>)
        \/ \A i \in 1..Len(routes.include) :
                \E j \in 1..Len(routes.routes) :
                    /\ routes.routes[j].type # "redirect"
                    /\ ~routes.routes[j].prerender
                    /\ routes.include[i] = <<"/">> \o JoinWith(routes.routes[j].segments, <<"/">>)
    /\ routes.step = "done" => (routes.written <=> ~routes.routesExists)

\* the file written for a build with no route and no static path
C34_Witness ==
    /\ routes.written
    /\ routes.routes = <<>>
    /\ routes.static = <<>>
    /\ routes.include = << <<"/", "*">> >>
    /\ routes.exclude = <<>>

\* -------------------------------------------------------------------- C35
\* C35 (as stated): the message is logged only while the hook is pending;
\* once the hook's promise has settled, fulfilled or rejected, no timer is
\* left armed for it and no message is logged for it.
C35_Original ==
    /\ [](runner.phase # "pending" => runner.armed = 0)
    /\ [][runner'.msgs # runner.msgs => runner.phase = "pending"]_vars

\* -------------------------------------------------------------------- C36
\* C36 (as stated): every entry of opts.pageNames is the name of a page
\* path for which an output file was written.
C36_Original ==
    \A k \in 1..Len(pageNames) :
        \E w \in 1..Len(writeLog) :
            /\ manifest[writeLog[w].route].type = "page"
            /\ pageNames[k] = PageName(writeLog[w].path, trailingSlash, buildFormat)

\* -------------------------------------------------------------------- C37
\* C37 (as stated): after a generatePages run no page name is in
\* opts.pageNames twice.
C37_Original ==
    pc \in {"done", "failed"} =>
        \A k \in 1..Len(pageNames), l \in 1..Len(pageNames) :
            k # l => pageNames[k] # pageNames[l]

\* -------------------------------------------------------------------- C38
Importers == { c \in ServiceCalls :
                \E k \in 1..Len(service.log) :
                    service.log[k] = [call |-> c, event |-> "import"] }

\* C38 (as stated): whatever the interleaving, only one call performs the
\* import, and all calls return the object stored in
\* globalThis.astroAsset.imageService.
C38_Original ==
    /\ service.imports <= 1
    /\ \A c \in ServiceCalls :
        service.calls[c].pc = "returned" => service.calls[c].got = service.global

\* C38 (amended): a call performs the import exactly when the service is
\* not yet stored as the call starts, so every call that starts before the
\* first import has resolved imports as well; the module is evaluated at
\* most once, and every call that returns, whether it imported or not,
\* returns the one object stored in globalThis.astroAsset.imageService.
C38_SameService ==
    /\ [](service.evaluated <= 1)
    /\ [](service.imports = Cardinality(Importers))
    /\ [](\A c \in ServiceCalls :
            service.calls[c].pc = "returned" =>
                /\ service.global # 0
                /\ service.calls[c].got = service.global)
    /\ [][\A c \in ServiceCalls :
            (service.calls[c].pc = "idle" /\ service'.calls[c].pc # "idle") =>
                IF service.global = 0
                THEN /\ service'.calls[c].pc = "importing"
                     /\ service'.imports = service.imports + 1
                ELSE /\ service'.calls[c].pc = "returned"
                     /\ service'.imports = service.imports]_vars
    /\ [][service.global # 0 => service'.global = service.global]_vars

\* two calls started before the service was stored, both imported, and
\* both returned the same object; a third found it stored
C38_Witness ==
    /\ service.imports = 2
    /\ \A c \in ServiceCalls : service.calls[c].pc = "returned"
    /\ \A c \in ServiceCalls : service.calls[c].got = service.global

====
